---- MODULE Spec2Model ----
\* The webhook admission and idempotency pipeline of convex-paddle:
\* the webhook_events ledger with its three mutations (component/private.ts)
\* and the HTTP action that drives them (registerRoutes).
EXTENDS Integers, FiniteSets, Sequences, TLC

\* ---------------------------------------------------------------- bounds
\* Webhook requests (HTTP action invocations), numbered in the order in which
\* their checkAndRecordEvent calls are serialized.
NumRequests == 3
\* The clock advances by LOCK_TTL_MS at most MaxBigTicks times ...
MaxBigTicks == 1
\* ... and by one millisecond at most MaxSmallTicks times in between.
MaxSmallTicks == 1
\* The deliveries followed step by step through the handler.
MaxDeliveries == 2
\* The page size of the transaction backfill (const BATCH_SIZE = 100 in the
\* source), scaled down.
BATCH_SIZE == 2
\* The transactions a table holds at most.
MaxTransactions == 3

\* ------------------------------------------------------------- constants
\* const LOCK_TTL_MS = 10 * 60 * 1000
LOCK_TTL_MS == 600000

Requests == 1..NumRequests
\* The event_id values delivered. Every mutation reads and writes only the
\* documents whose paddleEventId equals its argument (ByEventId), so the
\* requests of one event_id are the ones that interact.
Events == {"evt_1"}
\* _id of a record that predates the status field (no request of the model
\* inserted it).
LegacyId == 0
NoEvent == "none"

VARIABLES
    now,             \* Date.now(), in ms
    webhook_events,  \* the webhook_events table: a set of documents
    pc,              \* pc[r]: where request r is in the HTTP action
    ev,              \* ev[r]: event.event_id of request r
    resp,            \* resp[r]: the Response request r returned ("none" before)
    calledAt,        \* calledAt[r]: Date.now() inside r's checkAndRecordEvent
    releaseError,    \* releaseError[r]: r logged "Failed to release lock ..."
    config,          \* the RegisterRoutesConfig given to registerRoutes
    input,           \* input[r]: the HTTP request r received (header, body)
    calls,           \* calls[r]: the mutations and handlers r has called, in order
    applied,         \* the entity mutations committed so far, in commit order
    db,              \* the customers, subscriptions, transactions, adjustments
    run              \* the entity mutation last started: name, args, progress

\* The entity tables and the mutation running on them.
evars == <<db, run>>

\* The state around the ledger: the handler's and the entity tables'.
hvars == <<config, input, calls, applied, db, run>>

vars == <<now, webhook_events, pc, ev, resp, calledAt, releaseError,
          config, input, calls, applied, db, run>>

\* ------------------------------------------------------------ the ledger
\* A document of webhook_events. eventType and occurredAt are stored but never
\* read by the three mutations and are left out. _id is the document id: the
\* number of the request whose insert created it (a request inserts at most
\* once, so ids are unique), LegacyId for a pre-existing legacy record.
\* status is "processing", "processed" or "processed_pending"; "absent" stands
\* for a document without the optional status field.

Doc(id, e, st, t) ==
    [_id |-> id, paddleEventId |-> e, status |-> st, processedAt |-> t]

\* ctx.db.query("webhook_events").withIndex("by_paddle_event_id", q.eq(e))
ByEventId(tbl, e) == {d \in tbl : d.paddleEventId = e}

\* .unique() throws when more than one document matches.
UniqueThrows(tbl, e) == Cardinality(ByEventId(tbl, e)) > 1

\* No default: a record without status has none of the three statuses.
StatusOf_NoDefault(d) == d.status

\* existing.status ?? "processed"
StatusOf(d) == IF d.status = "absent" THEN "processed" ELSE d.status

IsPermanent(d) == StatusOf(d) \in {"processed", "processed_pending"}

\* A lock counted stale already at age = LOCK_TTL_MS.
IsStale_AtTtl(d, t) == t - d.processedAt >= LOCK_TTL_MS

\* age > LOCK_TTL_MS, with age = Date.now() - existing.processedAt
IsStale(d, t) == t - d.processedAt > LOCK_TTL_MS

\* A fresh processing lock is not respected: every processing record is taken
\* over as if it were stale.
checkAndRecordEvent_IgnoresFreshLock(tbl, e, t, id) ==
    LET existing == ByEventId(tbl, e)
        lock == Doc(id, e, "processing", t)
    IN  IF existing = {}
        THEN [ret |-> FALSE, tbl |-> tbl \cup {lock}]
        ELSE LET d == CHOOSE x \in existing : TRUE
             IN  IF IsPermanent(d)
                 THEN [ret |-> TRUE, tbl |-> tbl]
                 ELSE [ret |-> FALSE, tbl |-> (tbl \ {d}) \cup {lock}]

\* No TTL recovery: any existing record, however old its lock, means skip.
checkAndRecordEvent_NoTtl(tbl, e, t, id) ==
    IF ByEventId(tbl, e) = {}
    THEN [ret |-> FALSE, tbl |-> tbl \cup {Doc(id, e, "processing", t)}]
    ELSE [ret |-> TRUE, tbl |-> tbl]

\* A stale lock is re-acquired without the delete: the new lock is inserted
\* beside the stale record.
checkAndRecordEvent_NoDelete(tbl, e, t, id) ==
    LET existing == ByEventId(tbl, e)
        lock == Doc(id, e, "processing", t)
    IN  IF existing = {}
        THEN [ret |-> FALSE, tbl |-> tbl \cup {lock}]
        ELSE LET d == CHOOSE x \in existing : TRUE
             IN  IF IsPermanent(d)
                 THEN [ret |-> TRUE, tbl |-> tbl]
                 ELSE IF IsStale(d, t)
                      THEN [ret |-> FALSE, tbl |-> tbl \cup {lock}]
                      ELSE [ret |-> TRUE, tbl |-> tbl]

\* Whatever record exists is replaced by a new lock.
checkAndRecordEvent_AlwaysAcquire(tbl, e, t, id) ==
    [ret |-> FALSE,
     tbl |-> (tbl \ ByEventId(tbl, e)) \cup {Doc(id, e, "processing", t)}]

\* checkAndRecordEvent's handler once .unique() has returned: the value it
\* returns and the table it leaves. id is the _id the insert would create.
\* The schema allows no status but the three literals, so a record that is
\* not permanent is a processing lock.
checkAndRecordEvent(tbl, e, t, id) ==
    LET existing == ByEventId(tbl, e)
        lock == Doc(id, e, "processing", t)
    IN  IF existing = {}
        THEN [ret |-> FALSE, tbl |-> tbl \cup {lock}]
        ELSE LET d == CHOOSE x \in existing : TRUE
             IN  IF IsPermanent(d)
                 THEN [ret |-> TRUE, tbl |-> tbl]
                 ELSE IF IsStale(d, t)
                      THEN [ret |-> FALSE, tbl |-> (tbl \ {d}) \cup {lock}]
                      ELSE [ret |-> TRUE, tbl |-> tbl]

\* A missing record is created with the target status.
markEventProcessed_Upserts(tbl, e, targetStatus, t) ==
    LET existing == ByEventId(tbl, e)
    IN  IF existing = {}
        THEN tbl \cup {Doc(LegacyId, e, targetStatus, t)}
        ELSE LET d == CHOOSE x \in existing : TRUE
             IN  (tbl \ {d}) \cup {[d EXCEPT !.status = targetStatus,
                                             !.processedAt = t]}

\* markEventProcessed's handler: patch whatever document is found.
markEventProcessed(tbl, e, targetStatus, t) ==
    LET existing == ByEventId(tbl, e)
    IN  IF existing = {}
        THEN tbl
        ELSE LET d == CHOOSE x \in existing : TRUE
             IN  (tbl \ {d}) \cup {[d EXCEPT !.status = targetStatus,
                                             !.processedAt = t]}

\* The status test is missing: whatever record is found is deleted.
unreserveEvent_AnyStatus(tbl, e) == tbl \ ByEventId(tbl, e)

\* The delete is missing.
unreserveEvent_Noop(tbl, e) == tbl

\* unreserveEvent's handler: delete the document if its status is processing.
unreserveEvent(tbl, e) ==
    LET existing == ByEventId(tbl, e)
    IN  IF existing = {}
        THEN tbl
        ELSE LET d == CHOOSE x \in existing : TRUE
             IN  IF d.status = "processing" THEN tbl \ {d} ELSE tbl

\* -------------------------------------------------- signature verification
\* const WEBHOOK_MAX_AGE_SECONDS = 300
WEBHOOK_MAX_AGE_SECONDS == 300

\* A request body: the raw text, which JSON.parse accepts or not, and the
\* event_id and event_type fields of the event it parses to.
Body(e, ty) == [json |-> TRUE, event_id |-> e, event_type |-> ty]
NotJson == [json |-> FALSE, event_id |-> NoEvent, event_type |-> "none"]

\* The text after the "=" of one header field. k is what kind of text it is:
\*   "empty"    the empty string
\*   "int"      the decimal digits of n
\*   "intjunk"  the decimal digits of n followed by other characters
\*   "text"     text that does not start with a number
\*   "mac"      64 hex digits: the HMAC-SHA256, keyed by key, of the signed
\*              payload `${ts}:${rawBody}`, where ts is the text (tk, n)
Val(k, n) == [k |-> k, n |-> n, tk |-> "-", key |-> "-", body |-> NotJson]

\* crypto.subtle.sign("HMAC", key, `${ts}:${rawBody}`), hex-encoded. HMAC is
\* taken to be collision free: equal digests mean equal key, ts and body.
Hmac(secret, ts, rawBody) ==
    [k |-> "mac", n |-> ts.n, tk |-> ts.k, key |-> secret, body |-> rawBody]

\* One ";"-separated part of the header: key is the text before the first "="
\* (the whole part when eq is FALSE: the part has no "=").
Part(key, val) == [key |-> key, eq |-> TRUE, val |-> val]
Bare(key) == [key |-> key, eq |-> FALSE, val |-> Val("empty", 0)]

\* The header is absent (req.headers.get returns null) or empty.
NoHeader == << >>

\* parts.find((p) => p.startsWith(key + "=")): the index of the first such
\* part, 0 when there is none.
FindField(parts, key) ==
    LET hits == {i \in 1..Len(parts) : parts[i].key = key /\ parts[i].eq}
    IN  IF hits = {} THEN 0 ELSE CHOOSE i \in hits : \A j \in hits : i <= j

\* isNaN(parseInt(ts, 10))
IsNaN(v) == v.k \notin {"int", "intjunk"}
\* parseInt(ts, 10), for a text that starts with a number
ParseInt(v) == v.n

Abs(x) == IF x < 0 THEN 0 - x ELSE x

\* Only signatures from the past are bounded.
OutsideReplayWindow_PastOnly(t, tsSeconds) ==
    (t \div 1000) - tsSeconds > WEBHOOK_MAX_AGE_SECONDS

\* Math.abs(Math.floor(Date.now() / 1000) - tsSeconds) > WEBHOOK_MAX_AGE_SECONDS
OutsideReplayWindow(t, tsSeconds) ==
    Abs((t \div 1000) - tsSeconds) > WEBHOOK_MAX_AGE_SECONDS

\* The digest is not compared.
DigestMatches_Always(computedHash, h1) == TRUE

\* computedHash.length === h1.length and the xor of all characters is 0.
DigestMatches(computedHash, h1) == h1.k = "mac" /\ computedHash = h1

\* verifyPaddleWebhookSignature(rawBody, secret, signatureHeader) at time t.
verifyPaddleWebhookSignature(rawBody, secret, signatureHeader, t) ==
    LET tsAt == FindField(signatureHeader, "ts")
        h1At == FindField(signatureHeader, "h1")
    IN  IF tsAt = 0 \/ h1At = 0
        THEN FALSE
        ELSE LET ts == signatureHeader[tsAt].val
                 h1 == signatureHeader[h1At].val
             IN  IF ts.k = "empty" \/ h1.k = "empty"
                 THEN FALSE
                 ELSE IF IsNaN(ts)
                 THEN FALSE
                 ELSE IF OutsideReplayWindow(t, ParseInt(ts))
                 THEN FALSE
                 ELSE DigestMatches(Hmac(secret, ts, rawBody), h1)

\* ------------------------------------------------------ the entity tables
\* A field that is not set, an argument that is undefined.
Undef == "undefined"

\* The four entity tables. customers, subscriptions and adjustments are sets
\* of rows; transactions is the sequence of its rows in creation order, the
\* order in which an index range over one paddleSubscriptionId returns them.
EmptyDb ==
    [customers |-> {}, subscriptions |-> {}, transactions |-> << >>,
     adjustments |-> {}]

\* !v for a string or undefined v: undefined and the empty string are falsy.
Falsy(v) == v \in {Undef, ""}

\* A custom_data object, reduced to the two keys the mutations read.
CustomData(userId, orgId) == [userId |-> userId, orgId |-> orgId]

\* {}
EmptyData == CustomData(Undef, Undef)

\* customData: undefined, an argument or a field that is not set.
NoData == [undefined |-> TRUE]

\* The arguments of no mutation.
NoArgs == [none |-> TRUE]

\* No entity mutation has been started.
NoRun == [name |-> "none", args |-> NoArgs, phase |-> "none"]

\* args.customData || {}
OrEmpty(customData) == IF customData = NoData THEN EmptyData ELSE customData

\* .withIndex("by_paddle_..._id", q.eq(...)).unique() on a table kept as a set
RowsById(tbl, key, id) == {row \in tbl : row[key] = id}
RowById(tbl, key, id) == CHOOSE row \in RowsById(tbl, key, id) : TRUE

\* ctx.db.patch(row._id, {...}): new is the row with the patched fields; a
\* field patched to undefined is removed.
ReplaceRow(tbl, old, new) == (tbl \ {old}) \cup {new}

\* ---- customers. A row keeps paddleCustomerId, email and customData; name
\* and status are passed and stored exactly like email.
CustomerRow(args) ==
    [paddleCustomerId |-> args.paddleCustomerId,
     email |-> args.email,
     customData |-> OrEmpty(args.customData)]

\* An existing row is overwritten by a late customer.created.
handleCustomerCreated_Overwrites(args, d) ==
    [d EXCEPT !.customers =
        (@ \ RowsById(@, "paddleCustomerId", args.paddleCustomerId))
        \cup {CustomerRow(args)}]

handleCustomerCreated(args, d) ==
    IF RowsById(d.customers, "paddleCustomerId", args.paddleCustomerId) = {}
    THEN [d EXCEPT !.customers = @ \cup {CustomerRow(args)}]
    ELSE d

handleCustomerUpdated(args, d) ==
    IF RowsById(d.customers, "paddleCustomerId", args.paddleCustomerId) # {}
    THEN LET customer ==
                 RowById(d.customers, "paddleCustomerId", args.paddleCustomerId)
         IN  [d EXCEPT !.customers =
                 ReplaceRow(@, customer,
                            [customer EXCEPT !.email = args.email,
                                             !.customData = args.customData])]
    ELSE [d EXCEPT !.customers = @ \cup {CustomerRow(args)}]

\* The public upsert of a customer: it writes the fields as passed.
createOrUpdateCustomer(args, d) ==
    IF RowsById(d.customers, "paddleCustomerId", args.paddleCustomerId) # {}
    THEN LET existing ==
                 RowById(d.customers, "paddleCustomerId", args.paddleCustomerId)
         IN  [d EXCEPT !.customers =
                 ReplaceRow(@, existing,
                            [existing EXCEPT !.email = args.email,
                                             !.customData = args.customData])]
    ELSE [d EXCEPT !.customers =
             @ \cup {[paddleCustomerId |-> args.paddleCustomerId,
                      email |-> args.email,
                      customData |-> args.customData]}]

\* ---- subscriptions. quantity, currentBillingPeriodStart and
\* currentBillingPeriodEnd are passed and stored exactly like nextBilledAt.
SubscriptionRow(args) ==
    [paddleSubscriptionId |-> args.paddleSubscriptionId,
     paddleCustomerId |-> args.paddleCustomerId,
     status |-> args.status,
     priceId |-> args.priceId,
     nextBilledAt |-> args.nextBilledAt,
     scheduledChange |-> args.scheduledChange,
     pausedAt |-> Undef,
     canceledAt |-> Undef,
     customData |-> OrEmpty(args.customData),
     userId |-> OrEmpty(args.customData).userId,
     orgId |-> OrEmpty(args.customData).orgId]

HasSubscription(d, id) ==
    RowsById(d.subscriptions, "paddleSubscriptionId", id) # {}

SubscriptionOf(d, id) == RowById(d.subscriptions, "paddleSubscriptionId", id)

handleSubscriptionUpdated(args, d) ==
    \* if (subscription) ctx.db.patch(subscription._id, ...)
    IF HasSubscription(d, args.paddleSubscriptionId)
    THEN LET subscription == SubscriptionOf(d, args.paddleSubscriptionId)
         IN  [d EXCEPT !.subscriptions =
                 ReplaceRow(@, subscription,
                     [subscription EXCEPT !.status = args.status,
                         !.priceId = IF args.priceId # Undef THEN args.priceId ELSE @,
                         !.nextBilledAt = args.nextBilledAt,
                         !.scheduledChange = args.scheduledChange,
                         !.pausedAt = args.pausedAt,
                         !.canceledAt = args.canceledAt,
                         !.customData = IF args.customData # NoData
                                        THEN args.customData ELSE @,
                         !.userId = IF OrEmpty(args.customData).userId # Undef
                                    THEN OrEmpty(args.customData).userId ELSE @,
                         !.orgId = IF OrEmpty(args.customData).orgId # Undef
                                   THEN OrEmpty(args.customData).orgId ELSE @])]
    ELSE d

handleSubscriptionCanceled(args, d) ==
    \* if (subscription) ctx.db.patch(subscription._id, ...)
    IF HasSubscription(d, args.paddleSubscriptionId)
    THEN LET subscription == SubscriptionOf(d, args.paddleSubscriptionId)
         IN  [d EXCEPT !.subscriptions =
                 ReplaceRow(@, subscription,
                     [subscription EXCEPT !.status = "canceled",
                         !.canceledAt = args.canceledAt,
                         !.scheduledChange = Undef])]
    ELSE d

\* A row is created when the subscription does not exist.
handleSubscriptionPaused_Upserts(args, d) ==
    IF HasSubscription(d, args.paddleSubscriptionId)
    THEN d
    ELSE [d EXCEPT !.subscriptions =
             @ \cup {[paddleSubscriptionId |-> args.paddleSubscriptionId,
                      paddleCustomerId |-> Undef, status |-> "paused",
                      priceId |-> Undef, nextBilledAt |-> Undef,
                      scheduledChange |-> Undef, pausedAt |-> args.pausedAt,
                      canceledAt |-> Undef, customData |-> NoData,
                      userId |-> Undef, orgId |-> Undef]}]

handleSubscriptionPaused(args, d) ==
    \* if (subscription) ctx.db.patch(subscription._id, ...)
    IF HasSubscription(d, args.paddleSubscriptionId)
    THEN LET subscription == SubscriptionOf(d, args.paddleSubscriptionId)
         IN  [d EXCEPT !.subscriptions =
                 ReplaceRow(@, subscription,
                     [subscription EXCEPT !.status = "paused",
                         !.pausedAt = args.pausedAt])]
    ELSE d

handleSubscriptionResumed(args, d) ==
    \* if (subscription) ctx.db.patch(subscription._id, ...)
    IF HasSubscription(d, args.paddleSubscriptionId)
    THEN LET subscription == SubscriptionOf(d, args.paddleSubscriptionId)
         IN  [d EXCEPT !.subscriptions =
                 ReplaceRow(@, subscription,
                     [subscription EXCEPT !.status = "active",
                         !.pausedAt = Undef,
                         !.nextBilledAt = args.nextBilledAt])]
    ELSE d

handleSubscriptionActivated(args, d) ==
    \* if (subscription) ctx.db.patch(subscription._id, ...)
    IF HasSubscription(d, args.paddleSubscriptionId)
    THEN LET subscription == SubscriptionOf(d, args.paddleSubscriptionId)
         IN  [d EXCEPT !.subscriptions =
                 ReplaceRow(@, subscription,
                     [subscription EXCEPT !.status = "active",
                         !.nextBilledAt = args.nextBilledAt])]
    ELSE d

\* ---- transactions. paddleCustomerId is passed and stored like
\* paddleSubscriptionId; currencyCode, collectionMode, billedAt and createdAt
\* like totalAmount.
TxnIndex(txns, id) == {i \in 1..Len(txns) : txns[i].paddleTransactionId = id}

\* The linkage of a transaction to insert: from the custom data, or, when
\* that carries neither a userId nor an orgId and a subscription is given,
\* from the subscription row if there is one.
Linkage(args, d) ==
    LET customData == OrEmpty(args.customData)
    IN  IF Falsy(customData.userId) /\ Falsy(customData.orgId)
           /\ ~Falsy(args.paddleSubscriptionId)
           /\ HasSubscription(d, args.paddleSubscriptionId)
        THEN [userId |-> SubscriptionOf(d, args.paddleSubscriptionId).userId,
              orgId |-> SubscriptionOf(d, args.paddleSubscriptionId).orgId]
        ELSE [userId |-> customData.userId, orgId |-> customData.orgId]

TransactionRow(args, status, d) ==
    [paddleTransactionId |-> args.paddleTransactionId,
     paddleSubscriptionId |-> args.paddleSubscriptionId,
     status |-> status,
     totalAmount |-> args.totalAmount,
     customData |-> OrEmpty(args.customData),
     userId |-> Linkage(args, d).userId,
     orgId |-> Linkage(args, d).orgId]

\* The insert runs whether or not the lookup found a row.
handleTransactionCreated_AlwaysInserts(args, d) ==
    [d EXCEPT !.transactions = Append(@, TransactionRow(args, args.status, d))]

handleTransactionCreated(args, d) ==
    IF TxnIndex(d.transactions, args.paddleTransactionId) = {}
    THEN [d EXCEPT !.transactions = Append(@, TransactionRow(args, args.status, d))]
    ELSE d

handleTransactionUpdated(args, d) ==
    [d EXCEPT !.transactions =
        [i \in 1..Len(@) |->
            IF @[i].paddleTransactionId = args.paddleTransactionId
            THEN [@[i] EXCEPT
                    !.status = args.status,
                    !.totalAmount = IF args.totalAmount # Undef
                                    THEN args.totalAmount ELSE @,
                    !.customData = IF args.customData # NoData
                                   THEN args.customData ELSE @]
            ELSE @[i]]]

handleTransactionCompleted(args, d) ==
    IF TxnIndex(d.transactions, args.paddleTransactionId) # {}
    THEN [d EXCEPT !.transactions =
            [i \in 1..Len(@) |->
                IF @[i].paddleTransactionId = args.paddleTransactionId
                THEN [@[i] EXCEPT
                        !.status = "completed",
                        !.totalAmount = IF args.totalAmount # Undef
                                        THEN args.totalAmount ELSE @,
                        !.paddleSubscriptionId =
                            IF args.paddleSubscriptionId # Undef
                            THEN args.paddleSubscriptionId ELSE @]
                ELSE @[i]]]
    ELSE [d EXCEPT !.transactions = Append(@, TransactionRow(args, "completed", d))]

\* ---- the transaction backfill of handleSubscriptionCreated.
\* .withIndex("by_paddle_subscription_id", q.eq(id)).take(BATCH_SIZE): the
\* positions of the first BATCH_SIZE transactions of the subscription.
Batch(txns, id) ==
    LET matching == {i \in 1..Len(txns) : txns[i].paddleSubscriptionId = id}
    IN  {i \in matching :
            Cardinality({j \in matching : j < i}) < BATCH_SIZE}

\* batch.filter((txn) => !txn.userId || !txn.orgId)
ToUpdate(txns, id) ==
    {i \in Batch(txns, id) : Falsy(txns[i].userId) \/ Falsy(txns[i].orgId)}

\* The patch writes both identifiers, over what the row holds.
PatchTransaction_Overwrites(txn, userId, orgId) ==
    [txn EXCEPT !.userId = IF ~Falsy(userId) THEN userId ELSE @,
                !.orgId = IF ~Falsy(orgId) THEN orgId ELSE @]

\* ctx.db.patch(txn._id, {...(userId && !txn.userId && { userId }),
\*                        ...(orgId && !txn.orgId && { orgId })})
PatchTransaction(txn, userId, orgId) ==
    [txn EXCEPT !.userId = IF ~Falsy(userId) /\ Falsy(@) THEN userId ELSE @,
                !.orgId = IF ~Falsy(orgId) /\ Falsy(@) THEN orgId ELSE @]

\* hasMore = batch.length === BATCH_SIZE && toUpdate.length > 0, on the
\* table as the pass found it.
HasMore(txns, id) ==
    Cardinality(Batch(txns, id)) = BATCH_SIZE /\ ToUpdate(txns, id) # {}

\* One pass of the while loop: the table it leaves.
BackfillPass(txns, id, userId, orgId) ==
    [i \in 1..Len(txns) |->
        IF i \in ToUpdate(txns, id)
        THEN PatchTransaction(txns[i], userId, orgId)
        ELSE txns[i]]

\* The whole loop. Each pass is a function of the table alone, so a pass that
\* leaves the table as it found it and sets hasMore is repeated for ever:
\* the loop does not return (returns is FALSE).
RECURSIVE BackfillLoop(_, _, _, _)
BackfillLoop(txns, id, userId, orgId) ==
    LET after == BackfillPass(txns, id, userId, orgId)
    IN  IF ~HasMore(txns, id)
        THEN [returns |-> TRUE, txns |-> after]
        ELSE IF after = txns
        THEN [returns |-> FALSE, txns |-> after]
        ELSE BackfillLoop(after, id, userId, orgId)

\* if (userId || orgId)
Backfills(args) ==
    ~Falsy(OrEmpty(args.customData).userId)
    \/ ~Falsy(OrEmpty(args.customData).orgId)

\* if (!existing) insert
InsertSubscription(args, d) ==
    IF HasSubscription(d, args.paddleSubscriptionId)
    THEN d
    ELSE [d EXCEPT !.subscriptions = @ \cup {SubscriptionRow(args)}]

\* handleSubscriptionCreated returns: its loop, if entered, comes to an end.
SubscriptionCreatedReturns(args, d) ==
    Backfills(args) =>
        BackfillLoop(d.transactions, args.paddleSubscriptionId,
                     OrEmpty(args.customData).userId,
                     OrEmpty(args.customData).orgId).returns

\* The tables handleSubscriptionCreated leaves when it returns. A mutation
\* that does not return commits nothing.
handleSubscriptionCreated(args, d) ==
    IF ~Backfills(args)
    THEN InsertSubscription(args, d)
    ELSE IF ~SubscriptionCreatedReturns(args, d)
    THEN d
    ELSE [InsertSubscription(args, d) EXCEPT !.transactions =
             BackfillLoop(@, args.paddleSubscriptionId,
                          OrEmpty(args.customData).userId,
                          OrEmpty(args.customData).orgId).txns]

\* ---- adjustments. A row keeps paddleAdjustmentId, status and totalAmount;
\* the other fields are written by the insert only.
handleAdjustmentCreated(args, d) ==
    IF RowsById(d.adjustments, "paddleAdjustmentId", args.paddleAdjustmentId) = {}
    THEN [d EXCEPT !.adjustments =
             @ \cup {[paddleAdjustmentId |-> args.paddleAdjustmentId,
                      status |-> args.status,
                      totalAmount |-> args.totalAmount]}]
    ELSE d

handleAdjustmentUpdated(args, d) ==
    IF RowsById(d.adjustments, "paddleAdjustmentId", args.paddleAdjustmentId) # {}
    THEN LET adjustment ==
                 RowById(d.adjustments, "paddleAdjustmentId", args.paddleAdjustmentId)
         IN  [d EXCEPT !.adjustments =
                 ReplaceRow(@, adjustment,
                     [adjustment EXCEPT
                         !.status = args.status,
                         !.totalAmount = IF args.totalAmount # Undef
                                         THEN args.totalAmount ELSE @])]
    ELSE d

\* ------------------------------------------------ configuration, dispatch
\* An event type without a case is handled like a customer update.
EntityMutation_UnknownAsCustomer(ty) ==
    IF ty = "subscription.created"
    THEN "handleSubscriptionCreated" ELSE "handleCustomerUpdated"

\* The entity mutation processEvent runs for an event_type: the cases of its
\* switch; "none" is the default branch, which only logs.
EntityMutation(ty) ==
    CASE ty \in {"customer.created", "customer.imported"} -> "handleCustomerCreated"
      [] ty = "customer.updated" -> "handleCustomerUpdated"
      [] ty \in {"subscription.created", "subscription.imported"} ->
             "handleSubscriptionCreated"
      [] ty = "subscription.activated" -> "handleSubscriptionActivated"
      [] ty \in {"subscription.updated", "subscription.trialing",
                 "subscription.past_due"} -> "handleSubscriptionUpdated"
      [] ty = "subscription.canceled" -> "handleSubscriptionCanceled"
      [] ty = "subscription.paused" -> "handleSubscriptionPaused"
      [] ty = "subscription.resumed" -> "handleSubscriptionResumed"
      [] ty \in {"transaction.created", "transaction.ready",
                 "transaction.billed"} -> "handleTransactionCreated"
      [] ty \in {"transaction.updated", "transaction.paid",
                 "transaction.past_due", "transaction.payment_failed",
                 "transaction.canceled"} -> "handleTransactionUpdated"
      [] ty = "transaction.completed" -> "handleTransactionCompleted"
      [] ty = "adjustment.created" -> "handleAdjustmentCreated"
      [] ty = "adjustment.updated" -> "handleAdjustmentUpdated"
      [] OTHER -> "none"

\* The entity mutations processEvent can call.
EntityMutations ==
    {"handleCustomerCreated", "handleCustomerUpdated",
     "handleSubscriptionCreated", "handleSubscriptionActivated",
     "handleSubscriptionUpdated", "handleSubscriptionCanceled",
     "handleSubscriptionPaused", "handleSubscriptionResumed",
     "handleTransactionCreated", "handleTransactionUpdated",
     "handleTransactionCompleted", "handleAdjustmentCreated",
     "handleAdjustmentUpdated"}

\* The event types the requests of the model carry: one with an entity
\* mutation and a registered handler in the example app, and one that
\* processEvent has no case for.
EventTypes == {"subscription.created", "product.created"}

\* config.PADDLE_WEBHOOK_SECRET || process.env.PADDLE_WEBHOOK_SECRET; "" when
\* neither is set.
WebhookSecret == "whsec"

\* The configuration of the example app: two typed handlers and onEvent.
ExampleConfig ==
    [secret |-> WebhookSecret,
     onEvent |-> TRUE,
     events |-> {"subscription.created", "transaction.completed"}]

\* The configurations of the model: the example app, the example app without
\* a secret, and an app with only a handler for one event type.
Configs ==
    {ExampleConfig,
     [ExampleConfig EXCEPT !.secret = ""],
     [secret |-> WebhookSecret, onEvent |-> FALSE, events |-> {"product.created"}]}

\* The caller-supplied handlers in the order the webhook handler invokes them
\* after processEvent, as claimed by the specification: the typed handler
\* config.events[event_type] first.
HookOrder_TypedFirst == <<"events", "onEvent">>

\* The order in the code: config.onEvent, then config.events[event_type].
HookOrder == <<"onEvent", "events">>

\* if (config?.onEvent) / if (customHandler)
HookRegistered(cfg, hook, ty) ==
    IF hook = "onEvent" THEN cfg.onEvent ELSE ty \in cfg.events

\* The handler goes on to the signature without a test of the secret.
Boundary_SkipsSecretTest(cfg, inp) ==
    IF inp.header = NoHeader THEN "no_signature"
    ELSE IF ~verifyPaddleWebhookSignature(inp.body, cfg.secret, inp.header, inp.at)
    THEN "bad_signature"
    ELSE IF ~inp.body.json THEN "invalid_json"
    ELSE "pass"

\* What the handler does before checkAndRecordEvent: the response it returns
\* at once, or "pass" when the request goes on to admission.
Boundary(cfg, inp) ==
    IF cfg.secret = "" THEN "no_secret"
    ELSE IF inp.header = NoHeader THEN "no_signature"
    ELSE IF ~verifyPaddleWebhookSignature(inp.body, cfg.secret, inp.header, inp.at)
    THEN "bad_signature"
    ELSE IF ~inp.body.json THEN "invalid_json"
    ELSE "pass"

\* ------------------------------------------------------- the HTTP action
InFlight == {"dispatch", "finalize", "fallback", "release"}

\* The ledger before the first request: empty, or holding one record written
\* before the status field existed.
InitialLedgers ==
    {{}} \cup {{Doc(LegacyId, e, "absent", 0)} : e \in Events}

\* No request has arrived yet.
NoInput == [header |-> NoHeader, body |-> NotJson, at |-> 0]

InitRequests ==
    /\ now = 0
    /\ webhook_events \in InitialLedgers
    /\ pc = [r \in Requests |-> "idle"]
    /\ ev = [r \in Requests |-> NoEvent]
    /\ resp = [r \in Requests |-> "none"]
    /\ calledAt = [r \in Requests |-> 0]
    /\ releaseError = [r \in Requests |-> FALSE]
    /\ input = [r \in Requests |-> NoInput]
    /\ calls = [r \in Requests |-> << >>]
    /\ applied = << >>
    /\ db = EmptyDb
    /\ run = NoRun

Init ==
    /\ InitRequests
    /\ config = ExampleConfig

\* Time passes between any two steps.
TickSmall ==
    /\ now % LOCK_TTL_MS < MaxSmallTicks
    /\ now' = now + 1
    /\ UNCHANGED <<webhook_events, pc, ev, resp, calledAt, releaseError>>
    /\ UNCHANGED hvars

TickBig ==
    /\ now \div LOCK_TTL_MS < MaxBigTicks
    /\ now' = now + LOCK_TTL_MS
    /\ UNCHANGED <<webhook_events, pc, ev, resp, calledAt, releaseError>>
    /\ UNCHANGED hvars

\* After a throwing checkAndRecordEvent the handler goes on to processEvent.
Admit_FailOpen(r, e) ==
    /\ pc[r] = "idle"
    /\ \A q \in Requests : q < r => pc[q] # "idle"
    /\ ev' = [ev EXCEPT ![r] = e]
    /\ calledAt' = [calledAt EXCEPT ![r] = now]
    /\ pc' = [pc EXCEPT ![r] = "dispatch"]
    /\ resp' = [resp EXCEPT ![r] = "lock_failed"]
    /\ UNCHANGED <<now, webhook_events, releaseError>>

\* A verified, parsed request for event e runs checkAndRecordEvent.
Admit(r, e) ==
    /\ pc[r] = "idle"
    /\ \A q \in Requests : q < r => pc[q] # "idle"
    /\ ev' = [ev EXCEPT ![r] = e]
    /\ calledAt' = [calledAt EXCEPT ![r] = now]
    /\ \/ /\ ~UniqueThrows(webhook_events, e)
          /\ LET out == checkAndRecordEvent(webhook_events, e, now, r)
             IN  /\ webhook_events' = out.tbl
                 /\ IF out.ret
                    THEN /\ pc' = [pc EXCEPT ![r] = "done"]
                         /\ resp' = [resp EXCEPT ![r] = "duplicate"]
                    ELSE /\ pc' = [pc EXCEPT ![r] = "dispatch"]
                         /\ UNCHANGED resp
       \/ \* the mutation throws: nothing is committed
          /\ pc' = [pc EXCEPT ![r] = "done"]
          /\ resp' = [resp EXCEPT ![r] = "lock_failed"]
          /\ UNCHANGED webhook_events
    /\ UNCHANGED <<now, releaseError>>

\* processEvent and the caller-supplied handlers finish or one of them throws.
Dispatch(r) ==
    /\ pc[r] = "dispatch"
    /\ \/ pc' = [pc EXCEPT ![r] = "finalize"]
       \/ pc' = [pc EXCEPT ![r] = "release"]
    /\ UNCHANGED <<now, webhook_events, ev, resp, calledAt, releaseError>>

\* markEventProcessed({paddleEventId})
MarkProcessed(r) ==
    /\ pc[r] = "finalize"
    /\ \/ /\ ~UniqueThrows(webhook_events, ev[r])
          /\ webhook_events' =
                 markEventProcessed(webhook_events, ev[r], "processed", now)
          /\ pc' = [pc EXCEPT ![r] = "done"]
          /\ resp' = [resp EXCEPT ![r] = "received"]
       \/ /\ pc' = [pc EXCEPT ![r] = "fallback"]
          /\ UNCHANGED <<webhook_events, resp>>
    /\ UNCHANGED <<now, ev, calledAt, releaseError>>

\* A failed fallback write goes on to the catch path and its unreserveEvent.
MarkPending_Releases(r) ==
    /\ pc[r] = "fallback"
    /\ pc' = [pc EXCEPT ![r] = "release"]
    /\ resp' = [resp EXCEPT ![r] = "finalize_failed"]
    /\ UNCHANGED <<now, webhook_events, ev, calledAt, releaseError>>

\* markEventProcessed({paddleEventId, status: "processed_pending"})
MarkPending(r) ==
    /\ pc[r] = "fallback"
    /\ \/ /\ ~UniqueThrows(webhook_events, ev[r])
          /\ webhook_events' =
                 markEventProcessed(webhook_events, ev[r], "processed_pending", now)
          /\ resp' = [resp EXCEPT ![r] = "received"]
       \/ /\ resp' = [resp EXCEPT ![r] = "finalize_failed"]
          /\ UNCHANGED webhook_events
    /\ pc' = [pc EXCEPT ![r] = "done"]
    /\ UNCHANGED <<now, ev, calledAt, releaseError>>

\* The catch path: unreserveEvent, then 500 whether or not it threw.
Unreserve(r) ==
    /\ pc[r] = "release"
    /\ \/ /\ ~UniqueThrows(webhook_events, ev[r])
          /\ webhook_events' = unreserveEvent(webhook_events, ev[r])
          /\ UNCHANGED releaseError
       \/ /\ releaseError' = [releaseError EXCEPT ![r] = TRUE]
          /\ UNCHANGED webhook_events
    /\ pc' = [pc EXCEPT ![r] = "done"]
    /\ resp' = [resp EXCEPT ![r] = "processing_error"]
    /\ UNCHANGED <<now, ev, calledAt>>

\* The ledger-level specifications leave the handler-level state alone.
Next ==
    \/ TickSmall
    \/ TickBig
    \/ \E r \in Requests : \E e \in Events : Admit(r, e) /\ UNCHANGED hvars
    \/ \E r \in Requests : Dispatch(r) /\ UNCHANGED hvars
    \/ \E r \in Requests : MarkProcessed(r) /\ UNCHANGED hvars
    \/ \E r \in Requests : MarkPending(r) /\ UNCHANGED hvars
    \/ \E r \in Requests : Unreserve(r) /\ UNCHANGED hvars

Spec == Init /\ [][Next]_vars

\* Only the admission calls: N requests whose checkAndRecordEvent mutations are
\* serialized by the storage layer, with time passing in between.
NextAdmit ==
    \/ TickSmall
    \/ TickBig
    \/ \E r \in Requests : \E e \in Events : Admit(r, e) /\ UNCHANGED hvars

SpecAdmit == Init /\ [][NextAdmit]_vars

\* Sequential delivery: the sender redelivers an event only after the previous
\* request for it has answered.
Quiet == \A q \in Requests : pc[q] \notin InFlight

NextSeq ==
    \/ TickSmall
    \/ TickBig
    \/ \E r \in Requests : \E e \in Events :
            Quiet /\ Admit(r, e) /\ UNCHANGED hvars
    \/ \E r \in Requests : Dispatch(r) /\ UNCHANGED hvars
    \/ \E r \in Requests : MarkProcessed(r) /\ UNCHANGED hvars
    \/ \E r \in Requests : MarkPending(r) /\ UNCHANGED hvars
    \/ \E r \in Requests : Unreserve(r) /\ UNCHANGED hvars

SpecSeq == Init /\ [][NextSeq]_vars

\* ------------------------------------------- signature verification alone
\* The header Paddle sends: "ts=<ts>;h1=<hex hmac of ts:body under secret>".
\* The header reaches the try block: both fields are there and not empty,
\* ts parses and is inside the replay window.
ReachesCrypto(signatureHeader, t) ==
    LET tsAt == FindField(signatureHeader, "ts")
        h1At == FindField(signatureHeader, "h1")
    IN  /\ tsAt # 0
        /\ h1At # 0
        /\ signatureHeader[tsAt].val.k # "empty"
        /\ signatureHeader[h1At].val.k # "empty"
        /\ ~IsNaN(signatureHeader[tsAt].val)
        /\ ~OutsideReplayWindow(t, ParseInt(signatureHeader[tsAt].val))

\* Without the try block an exception of importKey or sign leaves the
\* function.
VerifyOutcome_NoCatch(rawBody, secret, signatureHeader, t, cryptoThrows) ==
    IF ReachesCrypto(signatureHeader, t) /\ cryptoThrows THEN "throws"
    ELSE IF verifyPaddleWebhookSignature(rawBody, secret, signatureHeader, t)
    THEN "true" ELSE "false"

\* How a call ends when crypto.subtle.importKey or crypto.subtle.sign
\* throws (cryptoThrows) or not: the catch returns false.
VerifyOutcome(rawBody, secret, signatureHeader, t, cryptoThrows) ==
    IF ReachesCrypto(signatureHeader, t) /\ cryptoThrows THEN "false"
    ELSE IF verifyPaddleWebhookSignature(rawBody, secret, signatureHeader, t)
    THEN "true" ELSE "false"

Signed(ts, secret, rawBody) ==
    <<Part("ts", ts), Part("h1", Hmac(secret, ts, rawBody))>>

\* Date.now() values the function is applied at: on and inside a second.
VerifyTimes == {301000, 301999, 600000}

\* The ts fields tried at time t: integers on both edges of the replay
\* window and one second outside either edge, and texts parseInt treats
\* differently.
VerifyTs(t) ==
    {Val("int", (t \div 1000) + d) :
        d \in {0 - (WEBHOOK_MAX_AGE_SECONDS + 1), 0 - WEBHOOK_MAX_AGE_SECONDS,
               0 - 1, 0, WEBHOOK_MAX_AGE_SECONDS, WEBHOOK_MAX_AGE_SECONDS + 1}}
    \cup {Val("intjunk", t \div 1000), Val("text", 0), Val("empty", 0)}

VerifyBodies == {Body("evt_1", "subscription.created"), NotJson}

\* The h1 fields tried for a ts and body: the right digest, digests under
\* another secret, over another body or another ts, and texts that are no
\* digest.
VerifyH1(ts, rawBody) ==
    {Hmac(WebhookSecret, ts, rawBody),
     Hmac("other", ts, rawBody),
     Hmac(WebhookSecret, ts, Body("evt_1", "customer.updated")),
     Hmac(WebhookSecret, Val("int", 0), rawBody),
     Val("text", 0), Val("empty", 0)}

\* The header shapes tried: both field orders, a missing field, a field
\* without "=", and a repeated field (find takes the first).
VerifyHeaders(ts, h1) ==
    {<<Part("ts", ts), Part("h1", h1)>>,
     <<Part("h1", h1), Part("ts", ts)>>,
     <<Part("ts", ts)>>,
     <<Part("h1", h1)>>,
     <<Bare("ts"), Part("h1", h1)>>,
     <<Part("ts", ts), Part("h1", h1), Part("ts", Val("int", 0))>>}

VerifyInputs(t) ==
    {[header |-> h, body |-> b, at |-> t] :
        h \in UNION {UNION {VerifyHeaders(ts, h1) :
                               h1 \in UNION {VerifyH1(ts, b2) :
                                                b2 \in VerifyBodies}} :
                        ts \in VerifyTs(t)},
        b \in VerifyBodies}

InitVerify ==
    /\ now \in VerifyTimes
    /\ webhook_events = {}
    /\ pc = [r \in Requests |-> "idle"]
    /\ ev = [r \in Requests |-> NoEvent]
    /\ resp = [r \in Requests |-> "none"]
    /\ calledAt = [r \in Requests |-> 0]
    /\ releaseError = [r \in Requests |-> FALSE]
    /\ input = [r \in Requests |-> NoInput]
    /\ calls = [r \in Requests |-> << >>]
    /\ applied = << >>
    /\ db = EmptyDb
    /\ run = NoRun
    /\ config = ExampleConfig

\* One application of verifyPaddleWebhookSignature, by the first request; its
\* result is kept in resp.
Verify ==
    /\ pc[1] = "idle"
    /\ \E inp \in VerifyInputs(now) :
        /\ input' = [input EXCEPT ![1] = inp]
        /\ resp' = [resp EXCEPT ![1] =
              IF verifyPaddleWebhookSignature(inp.body, config.secret,
                                              inp.header, inp.at)
              THEN "verified" ELSE "bad_signature"]
    /\ pc' = [pc EXCEPT ![1] = "done"]
    /\ UNCHANGED <<now, webhook_events, ev, calledAt, releaseError,
                   config, calls, applied>>

NextVerify == Verify /\ UNCHANGED evars

SpecVerify == InitVerify /\ [][NextVerify]_vars

\* ------------------------------------------------ the handler, step by step
\* The body the rejected requests of the model carry.
SampleBody == Body("evt_1", "subscription.created")

\* The requests that can arrive at time t: correctly signed events of every
\* type of the model; a correctly signed body that is not JSON; no header; a
\* header without h1; a digest over another payload; a digest under another
\* secret; a correctly signed ts 301 seconds ahead and, once the clock allows
\* it, one 400 seconds back.
HandlerInputs(t) ==
    LET tsNow == Val("int", t \div 1000)
        tsAhead == Val("int", (t \div 1000) + WEBHOOK_MAX_AGE_SECONDS + 1)
        tsBack == Val("int", (t \div 1000) - 400)
        headers ==
            {NoHeader,
             <<Part("ts", tsNow)>>,
             Signed(tsNow, WebhookSecret, Body("evt_1", "customer.updated")),
             Signed(tsNow, "other", SampleBody),
             Signed(tsAhead, WebhookSecret, SampleBody)}
            \cup (IF t \div 1000 >= 400
                  THEN {Signed(tsBack, WebhookSecret, SampleBody)} ELSE {})
    IN  {[header |-> Signed(tsNow, WebhookSecret, Body(e, ty)),
          body |-> Body(e, ty), at |-> t] : e \in Events, ty \in EventTypes}
        \cup {[header |-> Signed(tsNow, WebhookSecret, NotJson),
               body |-> NotJson, at |-> t]}
        \cup {[header |-> h, body |-> SampleBody, at |-> t] : h \in headers}

\* The HTTP status of each answer of the handler.
StatusCode(answer) ==
    CASE answer \in {"received", "duplicate"} -> 200
      [] answer \in {"no_signature", "bad_signature", "invalid_json"} -> 400
      [] answer \in {"no_secret", "lock_failed", "finalize_failed",
                     "processing_error"} -> 500

InitHandler ==
    /\ InitRequests
    /\ config \in Configs

HandlerInFlight == InFlight \cup {"hook1", "hook2"}

\* The sender delivers one request at a time.
HandlerQuiet == \A q \in Requests : pc[q] \notin HandlerInFlight

Called(r, name) == [calls EXCEPT ![r] = Append(calls[r], name)]

\* The request is answered before checkAndRecordEvent is reached.
Reject(r) ==
    /\ r <= MaxDeliveries
    /\ pc[r] = "idle"
    /\ \A q \in Requests : q < r => pc[q] # "idle"
    /\ HandlerQuiet
    /\ \E inp \in HandlerInputs(now) :
        /\ Boundary(config, inp) # "pass"
        /\ input' = [input EXCEPT ![r] = inp]
        /\ resp' = [resp EXCEPT ![r] = Boundary(config, inp)]
    /\ pc' = [pc EXCEPT ![r] = "done"]
    /\ UNCHANGED <<now, webhook_events, ev, calledAt, releaseError,
                   config, calls, applied>>

\* The request passes verification and parsing and runs checkAndRecordEvent.
HandlerAdmit(r) ==
    /\ r <= MaxDeliveries
    /\ pc[r] = "idle"
    /\ HandlerQuiet
    /\ \E inp \in HandlerInputs(now) :
        /\ Boundary(config, inp) = "pass"
        /\ Admit(r, inp.body.event_id)
        /\ input' = [input EXCEPT ![r] = inp]
    /\ calls' = Called(r, "checkAndRecordEvent")
    /\ UNCHANGED <<config, applied>>

\* A throwing entity mutation does not stop the handlers.
ProcessEvent_SwallowsThrow(r) ==
    /\ pc[r] = "dispatch"
    /\ EntityMutation(input[r].body.event_type) # "none"
    /\ calls' = Called(r, EntityMutation(input[r].body.event_type))
    /\ pc' = [pc EXCEPT ![r] = "hook1"]
    /\ UNCHANGED <<now, webhook_events, ev, resp, calledAt, releaseError,
                   config, input, applied>>

\* processEvent: the entity mutation of the event type commits or throws; an
\* event type without a case is logged.
ProcessEvent(r) ==
    /\ pc[r] = "dispatch"
    /\ LET m == EntityMutation(input[r].body.event_type)
       IN  IF m = "none"
           THEN /\ pc' = [pc EXCEPT ![r] = "hook1"]
                /\ UNCHANGED <<calls, applied>>
           ELSE /\ calls' = Called(r, m)
                /\ \/ /\ applied' = Append(applied,
                            [mutation |-> m, event_id |-> ev[r], by |-> r])
                      /\ pc' = [pc EXCEPT ![r] = "hook1"]
                   \/ /\ pc' = [pc EXCEPT ![r] = "release"]
                      /\ UNCHANGED applied
    /\ UNCHANGED <<now, webhook_events, ev, resp, calledAt, releaseError,
                   config, input>>

\* A throwing first handler skips the second and goes on to finalization.
Hook_ThrowFinalizes(r, i) ==
    /\ i = 1
    /\ pc[r] = "hook1"
    /\ HookRegistered(config, HookOrder[i], input[r].body.event_type)
    /\ calls' = Called(r, HookOrder[i])
    /\ pc' = [pc EXCEPT ![r] = "finalize"]
    /\ UNCHANGED <<now, webhook_events, ev, resp, calledAt, releaseError,
                   config, input, applied>>

\* The i-th caller-supplied handler: skipped when not registered, else it
\* returns or throws.
Hook(r, i) ==
    /\ pc[r] = (IF i = 1 THEN "hook1" ELSE "hook2")
    /\ LET after == IF i = 1 THEN "hook2" ELSE "finalize"
       IN  IF HookRegistered(config, HookOrder[i], input[r].body.event_type)
           THEN /\ calls' = Called(r, HookOrder[i])
                /\ \/ pc' = [pc EXCEPT ![r] = after]
                   \/ pc' = [pc EXCEPT ![r] = "release"]
           ELSE /\ pc' = [pc EXCEPT ![r] = after]
                /\ UNCHANGED calls
    /\ UNCHANGED <<now, webhook_events, ev, resp, calledAt, releaseError,
                   config, input, applied>>

HandlerMarkProcessed(r) ==
    /\ MarkProcessed(r)
    /\ calls' = Called(r, "markEventProcessed")
    /\ UNCHANGED <<config, input, applied>>

HandlerMarkPending(r) ==
    /\ MarkPending(r)
    /\ calls' = Called(r, "markEventProcessed:processed_pending")
    /\ UNCHANGED <<config, input, applied>>

HandlerUnreserve(r) ==
    /\ Unreserve(r)
    /\ calls' = Called(r, "unreserveEvent")
    /\ UNCHANGED <<config, input, applied>>

\* Between deliveries the clock moves by whole lock lifetimes only.
NextHandler ==
    \/ TickBig
    \/ \E r \in Requests : Reject(r) /\ UNCHANGED evars
    \/ \E r \in Requests : HandlerAdmit(r) /\ UNCHANGED evars
    \/ \E r \in Requests : ProcessEvent(r) /\ UNCHANGED evars
    \/ \E r \in Requests : \E i \in 1..2 : Hook(r, i) /\ UNCHANGED evars
    \/ \E r \in Requests : HandlerMarkProcessed(r) /\ UNCHANGED evars
    \/ \E r \in Requests : HandlerMarkPending(r) /\ UNCHANGED evars
    \/ \E r \in Requests : HandlerUnreserve(r) /\ UNCHANGED evars

SpecHandler == InitHandler /\ [][NextHandler]_vars

\* ------------------------------------------ the handler, concurrent requests
\* Deliveries of one correctly signed subscription.created event to the
\* example app, under any interleaving of their steps.
RaceInputs(t) ==
    {[header |-> Signed(Val("int", t \div 1000), WebhookSecret, SampleBody),
      body |-> SampleBody, at |-> t]}

RaceAdmit(r) ==
    /\ r <= MaxDeliveries
    /\ pc[r] = "idle"
    /\ \E inp \in RaceInputs(now) :
        /\ Boundary(config, inp) = "pass"
        /\ Admit(r, inp.body.event_id)
        /\ input' = [input EXCEPT ![r] = inp]
    /\ calls' = Called(r, "checkAndRecordEvent")
    /\ UNCHANGED <<config, applied>>

NextRace ==
    \/ TickSmall
    \/ TickBig
    \/ \E r \in Requests : RaceAdmit(r) /\ UNCHANGED evars
    \/ \E r \in Requests : ProcessEvent(r) /\ UNCHANGED evars
    \/ \E r \in Requests : \E i \in 1..2 : Hook(r, i) /\ UNCHANGED evars
    \/ \E r \in Requests : HandlerMarkProcessed(r) /\ UNCHANGED evars
    \/ \E r \in Requests : HandlerMarkPending(r) /\ UNCHANGED evars
    \/ \E r \in Requests : HandlerUnreserve(r) /\ UNCHANGED evars

SpecRace == Init /\ [][NextRace]_vars

\* ------------------------------------------------- the entity mutations
\* ctx.runMutation(component.private[m], args): the tables mutation m leaves.
ApplyMutation(m, args, d) ==
    CASE m = "handleCustomerCreated" -> handleCustomerCreated(args, d)
      [] m = "handleCustomerUpdated" -> handleCustomerUpdated(args, d)
      [] m = "handleSubscriptionCreated" -> handleSubscriptionCreated(args, d)
      [] m = "handleSubscriptionUpdated" -> handleSubscriptionUpdated(args, d)
      [] m = "handleSubscriptionCanceled" -> handleSubscriptionCanceled(args, d)
      [] m = "handleSubscriptionPaused" -> handleSubscriptionPaused(args, d)
      [] m = "handleSubscriptionResumed" -> handleSubscriptionResumed(args, d)
      [] m = "handleSubscriptionActivated" -> handleSubscriptionActivated(args, d)
      [] m = "handleTransactionCreated" -> handleTransactionCreated(args, d)
      [] m = "handleTransactionUpdated" -> handleTransactionUpdated(args, d)
      [] m = "handleTransactionCompleted" -> handleTransactionCompleted(args, d)
      [] m = "handleAdjustmentCreated" -> handleAdjustmentCreated(args, d)
      [] m = "handleAdjustmentUpdated" -> handleAdjustmentUpdated(args, d)

\* The mutation returns; only handleSubscriptionCreated has a loop.
MutationReturns(m, args, d) ==
    m = "handleSubscriptionCreated" => SubscriptionCreatedReturns(args, d)

\* data.custom_data || undefined of the events of the model.
CustomDatas ==
    {NoData, CustomData("u1", Undef), CustomData(Undef, "o1"),
     CustomData("u1", "o1")}

\* The arguments processEvent builds for each mutation from the event data.
MutationArgs(m) ==
    CASE m \in {"handleCustomerCreated", "handleCustomerUpdated"} ->
             [paddleCustomerId : {"cus_1"}, email : {"a@x", "b@x"},
              customData : {NoData, CustomData("u1", Undef)}]
      [] m = "handleSubscriptionCreated" ->
             [paddleSubscriptionId : {"sub_1"}, paddleCustomerId : {"cus_1"},
              status : {"active"}, priceId : {"pri_1"}, nextBilledAt : {"t1"},
              scheduledChange : {Undef}, customData : CustomDatas]
      [] m = "handleSubscriptionUpdated" ->
             [paddleSubscriptionId : {"sub_1"}, status : {"past_due"},
              priceId : {Undef, "pri_2"}, nextBilledAt : {"t2"},
              scheduledChange : {Undef}, pausedAt : {Undef},
              canceledAt : {Undef},
              customData : {NoData, CustomData("u1", Undef)}]
      [] m = "handleSubscriptionCanceled" ->
             [paddleSubscriptionId : {"sub_1"}, canceledAt : {Undef, "t2"}]
      [] m = "handleSubscriptionPaused" ->
             [paddleSubscriptionId : {"sub_1"}, pausedAt : {Undef, "t2"}]
      [] m \in {"handleSubscriptionResumed", "handleSubscriptionActivated"} ->
             [paddleSubscriptionId : {"sub_1"}, nextBilledAt : {Undef, "t2"}]
      [] m \in {"handleTransactionCreated", "handleTransactionCompleted"} ->
             [paddleTransactionId : {"txn_1", "txn_2"},
              paddleSubscriptionId : {Undef, "sub_1"}, status : {"ready"},
              totalAmount : {Undef, "100"}, customData : CustomDatas]
      [] m = "handleTransactionUpdated" ->
             [paddleTransactionId : {"txn_1", "txn_2"}, status : {"paid"},
              totalAmount : {Undef, "100"},
              customData : {NoData, CustomData("u1", Undef)}]
      [] m \in {"handleAdjustmentCreated", "handleAdjustmentUpdated"} ->
             [paddleAdjustmentId : {"adj_1"}, status : {"approved"},
              totalAmount : {Undef, "5"}]

\* The tables a mutation can find: each table empty or holding one row that
\* earlier events wrote.
InitialDbs ==
    LET customers ==
            {{}} \cup
            {{[paddleCustomerId |-> "cus_1", email |-> "a@x", customData |-> c]} :
                c \in {EmptyData, CustomData("u0", Undef)}}
        subscriptions ==
            {{}} \cup
            {{SubscriptionRow(
                [paddleSubscriptionId |-> "sub_1", paddleCustomerId |-> "cus_1",
                 status |-> "active", priceId |-> "pri_1",
                 nextBilledAt |-> "t0", scheduledChange |-> "change",
                 customData |-> c])} :
                c \in {NoData, CustomData("u0", "o0"), CustomData(Undef, "o0")}}
        transactions ==
            {<< >>} \cup
            {<<[paddleTransactionId |-> "txn_1",
                paddleSubscriptionId |-> "sub_1", status |-> "ready",
                totalAmount |-> "90", customData |-> CustomData(u, Undef),
                userId |-> u, orgId |-> Undef]>> : u \in {Undef, "u0"}}
        adjustments ==
            {{}, {[paddleAdjustmentId |-> "adj_1", status |-> "pending",
                   totalAmount |-> "4"]}}
    IN  [customers : customers, subscriptions : subscriptions,
         transactions : transactions, adjustments : adjustments]

InitEntity ==
    /\ now = 0
    /\ webhook_events = {}
    /\ pc = [r \in Requests |-> "idle"]
    /\ ev = [r \in Requests |-> NoEvent]
    /\ resp = [r \in Requests |-> "none"]
    /\ calledAt = [r \in Requests |-> 0]
    /\ releaseError = [r \in Requests |-> FALSE]
    /\ config = ExampleConfig
    /\ input = [r \in Requests |-> NoInput]
    /\ calls = [r \in Requests |-> << >>]
    /\ applied = << >>
    /\ db \in InitialDbs
    /\ run = NoRun

\* An event's entity mutation runs on the tables: it commits what it wrote,
\* or it does not return and commits nothing.
Apply(m, args) ==
    /\ run.phase = "none"
    /\ IF MutationReturns(m, args, db)
       THEN /\ db' = ApplyMutation(m, args, db)
            /\ run' = [name |-> m, args |-> args, phase |-> "once"]
       ELSE /\ db' = db
            /\ run' = [name |-> m, args |-> args, phase |-> "diverged"]
    /\ UNCHANGED <<now, webhook_events, pc, ev, resp, calledAt, releaseError,
                   config, input, calls, applied>>

\* The same event is delivered again and its mutation runs a second time with
\* the same arguments.
Reapply ==
    /\ run.phase = "once"
    /\ MutationReturns(run.name, run.args, db)
    /\ db' = ApplyMutation(run.name, run.args, db)
    /\ run' = [run EXCEPT !.phase = "twice"]
    /\ UNCHANGED <<now, webhook_events, pc, ev, resp, calledAt, releaseError,
                   config, input, calls, applied>>

NextEntity ==
    \/ \E m \in EntityMutations : \E args \in MutationArgs(m) : Apply(m, args)
    \/ Reapply

SpecEntity == InitEntity /\ [][NextEntity]_vars

\* ------------------------------- handleSubscriptionCreated, pass by pass
\* The transactions handleSubscriptionCreated can find: up to MaxTransactions
\* rows in creation order, of the subscription or of another one, that a
\* transaction event wrote with both, one or none of the identifiers; "" is a
\* userId the event's custom data carried as the empty string.
BackfillTransactions ==
    LET rows(i) ==
            {[paddleTransactionId |-> <<"txn", i>>,
              paddleSubscriptionId |-> s, status |-> "ready",
              totalAmount |-> "90", customData |-> CustomData(l[1], l[2]),
              userId |-> l[1], orgId |-> l[2]] :
                s \in {"sub_1", "sub_2"},
                l \in {<<Undef, Undef>>, <<"u0", Undef>>, <<"", "o0">>,
                       <<"u0", "o0">>}}
    IN  UNION {{t \in [1..n -> UNION {rows(i) : i \in 1..n}] :
                    \A i \in 1..n : t[i] \in rows(i)} :
               n \in 0..MaxTransactions}

InitBackfill ==
    /\ now = 0
    /\ webhook_events = {}
    /\ pc = [r \in Requests |-> "idle"]
    /\ ev = [r \in Requests |-> NoEvent]
    /\ resp = [r \in Requests |-> "none"]
    /\ calledAt = [r \in Requests |-> 0]
    /\ releaseError = [r \in Requests |-> FALSE]
    /\ config = ExampleConfig
    /\ input = [r \in Requests |-> NoInput]
    /\ calls = [r \in Requests |-> << >>]
    /\ applied = << >>
    /\ \E txns \in BackfillTransactions :
          db = [EmptyDb EXCEPT !.transactions = txns]
    /\ run = NoRun

\* handleSubscriptionCreated up to its loop: the lookup, the insert, and
\* if (userId || orgId).
BackfillStart(args) ==
    /\ run.phase = "none"
    /\ db' = InsertSubscription(args, db)
    /\ run' = [name |-> "handleSubscriptionCreated", args |-> args,
               phase |-> IF Backfills(args) THEN "loop" ELSE "returned"]
    /\ UNCHANGED <<now, webhook_events, pc, ev, resp, calledAt, releaseError,
                   config, input, calls, applied>>

\* while (hasMore): the loop is entered again and the page is read. The loop
\* keeps no cursor: each pass reads the index from its start.
BackfillQuery ==
    /\ run.phase = "loop"
    /\ run' = [run EXCEPT !.phase = "page"]
    /\ UNCHANGED <<now, webhook_events, pc, ev, resp, calledAt, releaseError,
                   config, input, calls, applied, db>>

\* The rest of the pass: the rows of the page that need it are patched, and
\* hasMore is set from the page and the rows that needed it.
BackfillPatch ==
    /\ run.phase = "page"
    /\ LET id == run.args.paddleSubscriptionId
           customData == OrEmpty(run.args.customData)
       IN  /\ db' = [db EXCEPT !.transactions =
                        BackfillPass(@, id, customData.userId, customData.orgId)]
           /\ run' = [run EXCEPT !.phase =
                        IF HasMore(db.transactions, id)
                        THEN "loop" ELSE "returned"]
    /\ UNCHANGED <<now, webhook_events, pc, ev, resp, calledAt, releaseError,
                   config, input, calls, applied>>

NextBackfill ==
    \/ \E args \in MutationArgs("handleSubscriptionCreated") : BackfillStart(args)
    \/ BackfillQuery
    \/ BackfillPatch

SpecBackfill == InitBackfill /\ [][NextBackfill]_vars

\* The mutation runs on: a step that is possible is taken.
SpecBackfillFair == SpecBackfill /\ WF_vars(NextBackfill)

\* ------------------------------------- the handler and the entity tables
\* The subscription events whose mutation patches a row and never inserts.
PatchOnlyTypes ==
    {"subscription.updated", "subscription.activated", "subscription.trialing",
     "subscription.past_due", "subscription.canceled", "subscription.paused",
     "subscription.resumed"}

\* Correctly signed subscription events: the patch-only ones and
\* subscription.created.
EffectInputs(t) ==
    {[header |-> Signed(Val("int", t \div 1000), WebhookSecret, Body(e, ty)),
      body |-> Body(e, ty), at |-> t] :
        e \in Events, ty \in PatchOnlyTypes \cup {"subscription.created"}}

\* The subscriptions table is empty or holds the row of sub_1.
InitEffects ==
    /\ now = 0
    /\ webhook_events = {}
    /\ pc = [r \in Requests |-> "idle"]
    /\ ev = [r \in Requests |-> NoEvent]
    /\ resp = [r \in Requests |-> "none"]
    /\ calledAt = [r \in Requests |-> 0]
    /\ releaseError = [r \in Requests |-> FALSE]
    /\ config = ExampleConfig
    /\ input = [r \in Requests |-> NoInput]
    /\ calls = [r \in Requests |-> << >>]
    /\ applied = << >>
    /\ db \in {d \in InitialDbs :
                 /\ d.customers = {} /\ d.adjustments = {}
                 /\ d.transactions = << >>
                 /\ \A row \in d.subscriptions : row.userId = "u0"}
    /\ run = NoRun

EffectAdmit(r) ==
    /\ r <= MaxDeliveries
    /\ pc[r] = "idle"
    /\ HandlerQuiet
    /\ \E inp \in EffectInputs(now) :
        /\ Boundary(config, inp) = "pass"
        /\ Admit(r, inp.body.event_id)
        /\ input' = [input EXCEPT ![r] = inp]
    /\ calls' = Called(r, "checkAndRecordEvent")
    /\ UNCHANGED <<config, applied>>

\* processEvent with the tables: the mutation of the event type runs with the
\* arguments built from the event data and commits what it wrote, or throws
\* and commits nothing.
Effect(r) ==
    /\ ProcessEvent(r)
    /\ IF applied' # applied
       THEN \E args \in MutationArgs(EntityMutation(input[r].body.event_type)) :
               /\ MutationReturns(EntityMutation(input[r].body.event_type),
                                  args, db)
               /\ db' = ApplyMutation(EntityMutation(input[r].body.event_type),
                                      args, db)
               /\ run' = [name |-> EntityMutation(input[r].body.event_type),
                          args |-> args, phase |-> "once"]
       ELSE UNCHANGED evars

NextEffects ==
    \/ \E r \in Requests : EffectAdmit(r) /\ UNCHANGED evars
    \/ \E r \in Requests : Effect(r)
    \/ \E r \in Requests : \E i \in 1..2 : Hook(r, i) /\ UNCHANGED evars
    \/ \E r \in Requests : HandlerMarkProcessed(r) /\ UNCHANGED evars
    \/ \E r \in Requests : HandlerMarkPending(r) /\ UNCHANGED evars
    \/ \E r \in Requests : HandlerUnreserve(r) /\ UNCHANGED evars

SpecEffects == InitEffects /\ [][NextEffects]_vars

\* --------------------------------------------- the ledger mutations alone
\* The ledgers a call can find: empty, or one record written at time 0, with
\* one of the three statuses or, written before the status field existed,
\* with none.
LedgerTables ==
    {{}} \cup
    {{Doc(LegacyId, e, st, 0)} :
        e \in Events,
        st \in {"absent", "processing", "processed", "processed_pending"}}

\* Date.now() at the calls: the record is new, exactly LOCK_TTL_MS old, one
\* millisecond older, and more than twice as old.
LedgerTimes == {0, LOCK_TTL_MS, LOCK_TTL_MS + 1, 2 * LOCK_TTL_MS + 1}

InitLedger ==
    /\ now \in LedgerTimes
    /\ webhook_events \in LedgerTables
    /\ pc = [r \in Requests |-> "idle"]
    /\ ev = [r \in Requests |-> NoEvent]
    /\ resp = [r \in Requests |-> "none"]
    /\ calledAt = [r \in Requests |-> 0]
    /\ releaseError = [r \in Requests |-> FALSE]
    /\ config = ExampleConfig
    /\ input = [r \in Requests |-> NoInput]
    /\ calls = [r \in Requests |-> << >>]
    /\ applied = << >>
    /\ db = EmptyDb
    /\ run = NoRun

\* Caller r runs one mutation for event e and it returns; resp[r] is the
\* value returned.
Call(r, e, name, returned) ==
    /\ pc[r] = "idle"
    /\ \A q \in Requests : q < r => pc[q] # "idle"
    /\ ~UniqueThrows(webhook_events, e)
    /\ pc' = [pc EXCEPT ![r] = "done"]
    /\ ev' = [ev EXCEPT ![r] = e]
    /\ calledAt' = [calledAt EXCEPT ![r] = now]
    /\ calls' = Called(r, name)
    /\ resp' = [resp EXCEPT ![r] = returned]
    /\ UNCHANGED <<now, releaseError, config, input, applied, db, run>>

CallCheckAndRecordEvent(r, e) ==
    LET out == checkAndRecordEvent(webhook_events, e, now, r)
    IN  /\ webhook_events' = out.tbl
        /\ Call(r, e, "checkAndRecordEvent", IF out.ret THEN "true" ELSE "false")

CallMarkEventProcessed(r, e, targetStatus) ==
    /\ webhook_events' = markEventProcessed(webhook_events, e, targetStatus, now)
    /\ Call(r, e, IF targetStatus = "processed"
                  THEN "markEventProcessed"
                  ELSE "markEventProcessed:processed_pending", "null")

CallUnreserveEvent(r, e) ==
    /\ webhook_events' = unreserveEvent(webhook_events, e)
    /\ Call(r, e, "unreserveEvent", "null")

NextLedger ==
    \/ \E r \in Requests : \E e \in Events : CallCheckAndRecordEvent(r, e)
    \/ \E r \in Requests : \E e \in Events :
          \E st \in {"processed", "processed_pending"} :
             CallMarkEventProcessed(r, e, st)
    \/ \E r \in Requests : \E e \in Events : CallUnreserveEvent(r, e)

SpecLedger == InitLedger /\ [][NextLedger]_vars

\* ------------------------------------------- requests that finish in time
\* No request is between its admission and its finalization more than
\* LOCK_TTL_MS after its admission.
Prompt ==
    \A r \in Requests : pc[r] \in InFlight => now - calledAt[r] <= LOCK_TTL_MS

\* The executions of Spec in which Prompt holds throughout: the clock does
\* not pass the lock lifetime of a request that has not answered yet.
NextPrompt ==
    \/ TickSmall /\ Prompt'
    \/ TickBig /\ Prompt'
    \/ \E r \in Requests : \E e \in Events : Admit(r, e) /\ UNCHANGED hvars
    \/ \E r \in Requests : Dispatch(r) /\ UNCHANGED hvars
    \/ \E r \in Requests : MarkProcessed(r) /\ UNCHANGED hvars
    \/ \E r \in Requests : MarkPending(r) /\ UNCHANGED hvars
    \/ \E r \in Requests : Unreserve(r) /\ UNCHANGED hvars

SpecPrompt == Init /\ [][NextPrompt]_vars

\* ------------------------------------- the verifier on any header
\* The first 32 hex digits of a digest.
Truncated(mac) == [mac EXCEPT !.k = "macprefix"]

\* The inputs of VerifyInputs, the empty header, and correctly dated headers
\* whose h1 is half of the right digest.
TotalInputs(t) ==
    VerifyInputs(t)
    \cup {[header |-> NoHeader, body |-> b, at |-> t] : b \in VerifyBodies}
    \cup {[header |->
               <<Part("ts", Val("int", t \div 1000)),
                 Part("h1", Truncated(Hmac(WebhookSecret,
                                           Val("int", t \div 1000), b)))>>,
           body |-> b, at |-> t] : b \in VerifyBodies}

\* One call of verifyPaddleWebhookSignature, by the first request, in which
\* the cryptographic step throws or does not; resp keeps how it ended.
VerifyTotal ==
    /\ pc[1] = "idle"
    /\ \E inp \in TotalInputs(now) : \E cryptoThrows \in BOOLEAN :
        /\ input' = [input EXCEPT ![1] = inp]
        /\ run' = [name |-> "verifyPaddleWebhookSignature",
                   args |-> [cryptoThrows |-> cryptoThrows],
                   phase |-> "once"]
        /\ resp' = [resp EXCEPT ![1] =
              LET outcome == VerifyOutcome(inp.body, config.secret, inp.header,
                                           inp.at, cryptoThrows)
              IN  CASE outcome = "true" -> "verified"
                    [] outcome = "false" -> "bad_signature"
                    [] outcome = "throws" -> "threw"]
    /\ pc' = [pc EXCEPT ![1] = "done"]
    /\ UNCHANGED <<now, webhook_events, ev, calledAt, releaseError,
                   config, calls, applied, db>>

NextVerifyTotal == VerifyTotal

SpecVerifyTotal == InitVerify /\ [][NextVerifyTotal]_vars

\* ------------------------------------------- sequences of mutations
\* The arguments of the mutations of a sequence: every identifier and every
\* email and status of MutationArgs, without custom data, and with the
\* optional amounts and dates present.
SequenceArgs(m) ==
    {a \in MutationArgs(m) :
        /\ "customData" \in DOMAIN a => a.customData = NoData
        /\ "totalAmount" \in DOMAIN a => a.totalAmount # Undef
        /\ "priceId" \in DOMAIN a => a.priceId # Undef
        /\ "nextBilledAt" \in DOMAIN a => a.nextBilledAt # Undef
        /\ "pausedAt" \in DOMAIN a /\ m = "handleSubscriptionPaused" =>
               a.pausedAt # Undef
        /\ "canceledAt" \in DOMAIN a /\ m = "handleSubscriptionCanceled" =>
               a.canceledAt # Undef}

\* Any entity mutation runs on the tables, atomically, after any others.
Mutate(m, args) ==
    /\ MutationReturns(m, args, db)
    /\ db' = ApplyMutation(m, args, db)
    /\ UNCHANGED <<now, webhook_events, pc, ev, resp, calledAt, releaseError,
                   config, input, calls, applied, run>>

\* The host application calls createOrUpdateCustomer.
CreateOrUpdateCustomer(args) ==
    /\ db' = createOrUpdateCustomer(args, db)
    /\ UNCHANGED <<now, webhook_events, pc, ev, resp, calledAt, releaseError,
                   config, input, calls, applied, run>>

NextMutations ==
    \/ \E m \in EntityMutations : \E args \in SequenceArgs(m) : Mutate(m, args)
    \/ \E args \in SequenceArgs("handleCustomerUpdated") :
            CreateOrUpdateCustomer(args)

InitMutations ==
    /\ InitEntity
    /\ db = EmptyDb

SpecMutations == InitMutations /\ [][NextMutations]_vars

\* ------------------------------------------------- the retrying sender
\* The requests that a storage failure, a handler failure or a crash has hit.
MaxFailures == 1

\* The action stops at one of its awaits and never answers.
Crash(r) ==
    /\ pc[r] \in InFlight
    /\ pc' = [pc EXCEPT ![r] = "crashed"]
    /\ UNCHANGED <<now, webhook_events, ev, resp, calledAt, releaseError>>

Failed(r) ==
    \/ pc[r] \in {"fallback", "release", "crashed"}
    \/ resp[r] \in {"lock_failed", "finalize_failed", "processing_error"}

\* Failures stop: all requests after the first MaxFailures failed ones run
\* without a storage failure, a handler failure or a crash.
FailuresStop == Cardinality({r \in Requests : Failed(r)}) <= MaxFailures

\* The sender has an answer with status 200.
Acknowledged == \E r \in Requests : resp[r] \in {"received", "duplicate"}

\* The sender delivers the event, and delivers it again after a 500 or after
\* a request that never answered, until the first 200.
Redeliver(r, e) ==
    /\ Quiet
    /\ ~Acknowledged
    /\ Admit(r, e)

InitRetry ==
    /\ Init
    /\ webhook_events = {}

NextRetry ==
    \/ TickSmall
    \/ TickBig
    \/ \E r \in Requests : \E e \in Events :
            Redeliver(r, e) /\ FailuresStop' /\ UNCHANGED hvars
    \/ \E r \in Requests : Dispatch(r) /\ FailuresStop' /\ UNCHANGED hvars
    \/ \E r \in Requests : MarkProcessed(r) /\ FailuresStop' /\ UNCHANGED hvars
    \/ \E r \in Requests : MarkPending(r) /\ FailuresStop' /\ UNCHANGED hvars
    \/ \E r \in Requests : Unreserve(r) /\ FailuresStop' /\ UNCHANGED hvars
    \/ \E r \in Requests : Crash(r) /\ FailuresStop' /\ UNCHANGED hvars

\* The sender, the storage layer and the clock keep going while they can.
SpecRetry == InitRetry /\ [][NextRetry]_vars /\ WF_vars(NextRetry)

\* ---------------------------------------------------------------- claims
\* Request r runs its checkAndRecordEvent call in this step.
AdmissionStep(r) == pc[r] = "idle" /\ pc'[r] # "idle"

\* ... and the call returned (the mutation did not throw).
AdmissionReturns(r) == AdmissionStep(r) /\ resp'[r] # "lock_failed"

PermanentRecordOf(tbl, e) == {d \in ByEventId(tbl, e) : IsPermanent(d)}

\* C1 (Permanence): once the record of an event_id is processed or
\* processed_pending, it stays permanent in every later state, and every
\* checkAndRecordEvent call for that event_id that returns, returns true
\* (the request answers duplicate), never false, at any later time.
Permanence ==
    [][\A e \in Events :
          PermanentRecordOf(webhook_events, e) # {} =>
             /\ PermanentRecordOf(webhook_events', e) # {}
             /\ \A r \in Requests :
                   (AdmissionStep(r) /\ ev'[r] = e) =>
                       /\ pc'[r] = "done"
                       /\ resp'[r] \in {"duplicate", "lock_failed"}]_vars

\* A call made more than LOCK_TTL_MS after the permanent record was last
\* written was answered duplicate.
PermanenceWitness ==
    \E r \in Requests :
        /\ resp[r] = "duplicate"
        /\ \E d \in ByEventId(webhook_events, ev[r]) :
              /\ d.status \in {"processed", "processed_pending"}
              /\ calledAt[r] - d.processedAt > LOCK_TTL_MS

\* The requests whose checkAndRecordEvent call for e has returned.
Returned(e) ==
    {r \in Requests : ev[r] = e /\ pc[r] # "idle" /\ resp[r] # "lock_failed"}

\* e had no record before the first call.
Unseen(e) == \A d \in ByEventId(webhook_events, e) : d._id # LegacyId

\* C2 (concurrent duplicate suppression): of the serialized
\* checkAndRecordEvent calls for one previously unseen event_id that have
\* returned, all made within LOCK_TTL_MS of each other, exactly one returned
\* false (the request goes on to dispatch) and all the others returned true.
ConcurrentDuplicateSuppression ==
    \A e \in Events :
        ( /\ Unseen(e)
          /\ Returned(e) # {}
          /\ \A r, q \in Returned(e) : calledAt[r] - calledAt[q] <= LOCK_TTL_MS )
        => /\ Cardinality({r \in Returned(e) : pc[r] = "dispatch"}) = 1
           /\ \A r \in Returned(e) :
                 pc[r] # "dispatch" => resp[r] = "duplicate"

\* All the requests called, at different times up to the full lock lifetime
\* apart, and exactly one holds the lock.
ConcurrentDuplicateSuppressionWitness ==
    \E e \in Events :
        /\ Unseen(e)
        /\ Returned(e) = Requests
        /\ \E r, q \in Requests : calledAt[r] - calledAt[q] = LOCK_TTL_MS
        /\ \A r, q \in Requests : calledAt[r] - calledAt[q] <= LOCK_TTL_MS
        /\ Cardinality({r \in Requests : resp[r] = "duplicate"}) = NumRequests - 1

\* C3 (permanent records are never touched): a record whose status is
\* processed or processed_pending is never deleted, never re-locked, never
\* changed to the other permanent status and never rewritten: it is in the
\* table, field for field, after every step.
PermanentNeverRewritten ==
    [][\A d \in webhook_events : IsPermanent(d) => d \in webhook_events']_vars

\* C4 (mutual exclusion): for each event_id at most one request that got
\* ACQUIRED less than LOCK_TTL_MS ago is between its admission and its
\* finalization.
MutualExclusion ==
    \A e \in Events :
        Cardinality({r \in Requests : /\ ev[r] = e
                                      /\ pc[r] \in InFlight
                                      /\ now - calledAt[r] < LOCK_TTL_MS}) <= 1

\* C5 (fail-closed success): a request that answered 200 {received:true} has
\* a processed or processed_pending record for its event_id in the ledger.
FailClosedSuccess ==
    \A r \in Requests :
        resp[r] = "received" => PermanentRecordOf(webhook_events, ev[r]) # {}

\* C6, as claimed: a request that answered 200 {received:true,duplicate:true}
\* has a processed or processed_pending record for its event_id.
DuplicateOnlyIfPermanent ==
    \A r \in Requests :
        resp[r] = "duplicate" => PermanentRecordOf(webhook_events, ev[r]) # {}

\* C6, amended: the duplicate response is produced only by a
\* checkAndRecordEvent call that found a record for the event_id which is
\* either permanent or a processing lock not older than LOCK_TTL_MS.
DuplicateOnlyIfRecorded ==
    [][\A r \in Requests :
          (AdmissionStep(r) /\ resp'[r] = "duplicate") =>
              \E d \in ByEventId(webhook_events, ev'[r]) :
                  \/ IsPermanent(d)
                  \/ /\ d.status = "processing"
                     /\ now - d.processedAt <= LOCK_TTL_MS]_vars

\* A duplicate response given while another request still holds the lock it
\* acquired before that call.
DuplicateOnlyIfRecordedWitness ==
    \E r, q \in Requests :
        /\ resp[r] = "duplicate"
        /\ pc[q] = "dispatch"
        /\ ev[q] = ev[r]
        /\ Doc(q, ev[q], "processing", calledAt[q]) \in webhook_events
        /\ calledAt[q] <= calledAt[r]
        /\ q < r

\* Request r runs the catch path (unreserveEvent and the 500 response) in
\* this step.
ReleaseStep(r) == pc[r] = "release" /\ pc'[r] # "release"

\* C7, as claimed (failure rollback): when dispatch threw in a request that
\* acquired the lock, the request answers 500 and its event_id's record is
\* then absent, or still processing if the unreserveEvent delete failed;
\* it is not left as processed.
FailureRollback ==
    [][\A r \in Requests :
          ReleaseStep(r) =>
              /\ resp'[r] = "processing_error"
              /\ \/ ByEventId(webhook_events', ev[r]) = {}
                 \/ /\ releaseError'[r]
                    /\ \A d \in ByEventId(webhook_events', ev[r]) :
                          d.status = "processing"]_vars

\* C7, amended: the request answers 500 and writes nothing: a processing
\* record of its event_id is deleted unless the delete failed, in which case
\* it stays as it was, and a record that another request has meanwhile made
\* permanent stays as it was; the failing request never sets a record to
\* processed.
FailureRollbackOwnWrites ==
    [][\A r \in Requests :
          ReleaseStep(r) =>
              /\ pc'[r] = "done"
              /\ resp'[r] = "processing_error"
              /\ webhook_events' \subseteq webhook_events
              /\ \A d \in webhook_events \ webhook_events' :
                    d.paddleEventId = ev[r] /\ d.status = "processing"
              /\ releaseError'[r] => webhook_events' = webhook_events
              /\ ~releaseError'[r] =>
                    \A d \in ByEventId(webhook_events', ev[r]) :
                        d.status # "processing"]_vars

\* A request whose dispatch threw released the lock it had acquired itself:
\* it answered 500 and the record is gone ...
FailureRollbackWitness ==
    \E r \in Requests :
        /\ resp[r] = "processing_error"
        /\ ~releaseError[r]
        /\ ByEventId(webhook_events, ev[r]) = {}
        /\ \A q \in Requests : q # r => pc[q] = "idle"

\* C8 (retry after failure), for sequential deliveries: (a) when a request
\* whose dispatch threw has run unreserveEvent without error, the ledger has
\* no record for the event; (b) a delivery that finds no record is admitted
\* (checkAndRecordEvent returns false) and goes on to dispatch; (c) when its
\* dispatch succeeds and markEventProcessed does not throw, the record it
\* inserted has status processed and the answer is 200 {received:true}.
RetryAfterFailure ==
    [][\A r \in Requests :
          /\ (ReleaseStep(r) /\ ~releaseError'[r]) =>
                 ByEventId(webhook_events', ev[r]) = {}
          /\ (AdmissionReturns(r) /\ ByEventId(webhook_events, ev'[r]) = {}) =>
                 /\ pc'[r] = "dispatch"
                 /\ ByEventId(webhook_events', ev'[r]) =
                        {Doc(r, ev'[r], "processing", now)}
          /\ (pc[r] = "finalize" /\ pc'[r] = "done") =>
                 /\ resp'[r] = "received"
                 /\ ByEventId(webhook_events', ev[r]) =
                        {Doc(r, ev[r], "processed", now)}]_vars

\* The first delivery failed and released the lock; the redelivery was admitted
\* and finished: its record is processed.
RetryAfterFailureWitness ==
    \E q, r \in Requests :
        /\ q < r
        /\ ev[q] = ev[r]
        /\ resp[q] = "processing_error"
        /\ ~releaseError[q]
        /\ resp[r] = "received"
        /\ \E d \in ByEventId(webhook_events, ev[r]) :
              d._id = r /\ d.status = "processed"

\* C9 (stale lock recovery): a checkAndRecordEvent call that finds a
\* processing record older than LOCK_TTL_MS returns false, and afterwards the
\* event_id has exactly one record: the caller's, with status processing and
\* processedAt the time of the call.
StaleLockRecovery ==
    [][\A r \in Requests :
          ( /\ AdmissionReturns(r)
            /\ \E d \in ByEventId(webhook_events, ev'[r]) :
                  d.status = "processing" /\ now - d.processedAt > LOCK_TTL_MS )
          => /\ pc'[r] = "dispatch"
             /\ resp'[r] = "none"
             /\ ByEventId(webhook_events', ev'[r]) =
                    {Doc(r, ev'[r], "processing", now)}]_vars

\* Request r holds the lock it took over from q, which acquired it more than
\* LOCK_TTL_MS earlier and is still dispatching.
StaleLockRecoveryWitness ==
    \E q, r \in Requests :
        /\ q < r
        /\ ev[q] = ev[r]
        /\ pc[q] = "dispatch"
        /\ pc[r] = "dispatch"
        /\ calledAt[r] - calledAt[q] > LOCK_TTL_MS
        /\ ByEventId(webhook_events, ev[r]) =
               {Doc(r, ev[r], "processing", calledAt[r])}

\* C10 (fresh lock respected): a checkAndRecordEvent call that finds a
\* processing record of age at most LOCK_TTL_MS returns true and leaves the
\* ledger as it was.
FreshLockRespected ==
    [][\A r \in Requests :
          ( /\ AdmissionReturns(r)
            /\ \E d \in ByEventId(webhook_events, ev'[r]) :
                  d.status = "processing" /\ now - d.processedAt <= LOCK_TTL_MS )
          => /\ pc'[r] = "done"
             /\ resp'[r] = "duplicate"
             /\ webhook_events' = webhook_events]_vars

\* The boundary: a call made exactly LOCK_TTL_MS after the lock was written
\* was answered duplicate and the lock is still the one it found.
FreshLockRespectedWitness ==
    \E q, r \in Requests :
        /\ q < r
        /\ ev[q] = ev[r]
        /\ resp[r] = "duplicate"
        /\ calledAt[r] - calledAt[q] = LOCK_TTL_MS
        /\ Doc(q, ev[q], "processing", calledAt[q]) \in webhook_events

\* The header of inp is "ts=<integer>;h1=<digest>" with the digest taken
\* under the configured secret over that ts and the body of inp.
CorrectlySigned(inp) ==
    /\ Len(inp.header) = 2
    /\ inp.header[1].key = "ts" /\ inp.header[1].eq
    /\ inp.header[1].val.k = "int"
    /\ inp.header[2] = Part("h1", Hmac(config.secret, inp.header[1].val, inp.body))

\* The seconds between the receive time of inp and the ts of its header.
SecondsFromNow(inp) ==
    Abs((inp.at \div 1000) - inp.header[FindField(inp.header, "ts")].val.n)

\* The header of inp has a ts field holding an integer.
HasIntegerTs(inp) ==
    /\ FindField(inp.header, "ts") # 0
    /\ inp.header[FindField(inp.header, "ts")].val.k = "int"

\* C12 Replay window: verifyPaddleWebhookSignature rejects every request whose
\* ts is more than 300 seconds from floor(now/1000), in the past or in the
\* future, whatever its digest; a correctly signed request is accepted exactly
\* when its ts is at most 300 seconds from floor(now/1000), so one at exactly
\* 300 seconds is accepted and one at 301 seconds is rejected.
ReplayWindow ==
    pc[1] = "done" =>
        /\ (HasIntegerTs(input[1]) /\ SecondsFromNow(input[1]) > 300)
               => resp[1] = "bad_signature"
        /\ CorrectlySigned(input[1])
               => (resp[1] = "verified" <=> SecondsFromNow(input[1]) <= 300)

\* A correctly signed request, received inside a second, whose ts is exactly
\* 300 seconds before floor(now/1000), has been accepted.
ReplayWindowWitness ==
    /\ pc[1] = "done"
    /\ CorrectlySigned(input[1])
    /\ input[1].at % 1000 # 0
    /\ (input[1].at \div 1000) - input[1].header[1].val.n = 300
    /\ resp[1] = "verified"

\* The Paddle-Signature header of inp is missing, malformed (no ts or no h1
\* field, an empty one, or a ts that is no number), carries a digest that is
\* not the HMAC of its ts and the body of inp under the configured secret, or
\* carries a ts more than 300 seconds from the receive time.
SignatureDefect(inp) ==
    \/ inp.header = NoHeader
    \/ \A i \in 1..Len(inp.header) : ~(inp.header[i].key = "ts" /\ inp.header[i].eq)
    \/ \A i \in 1..Len(inp.header) : ~(inp.header[i].key = "h1" /\ inp.header[i].eq)
    \/ LET ts == inp.header[FindField(inp.header, "ts")].val
           h1 == inp.header[FindField(inp.header, "h1")].val
       IN  \/ ts.k \notin {"int", "intjunk"}
           \/ h1.k # "mac"
           \/ h1.key # config.secret \/ h1.body # inp.body
           \/ h1.n # ts.n \/ h1.tk # ts.k
           \/ (inp.at \div 1000) - ts.n > 300
           \/ ts.n - (inp.at \div 1000) > 300

\* Request r has arrived with a defective signature at a deployment whose
\* webhook secret is configured.
DefectiveArrival(r) ==
    pc[r] # "idle" /\ config.secret # "" /\ SignatureDefect(input[r])

\* C11 Signature rejection precedes all state change: a request whose
\* Paddle-Signature header is missing, malformed, carries a digest over a
\* different payload or secret, or a timestamp more than 300 seconds from now
\* is answered 400 in the step in which it arrives; that step leaves the
\* ledger and the entity effects as they were, and the request never calls
\* a mutation or a caller-supplied handler and owns no ledger record.
SignatureRejection ==
    /\ [](\A r \in Requests :
            DefectiveArrival(r) =>
                /\ pc[r] = "done"
                /\ StatusCode(resp[r]) = 400
                /\ calls[r] = << >>
                /\ \A d \in webhook_events : d._id # r
                /\ \A k \in 1..Len(applied) : applied[k].by # r)
    /\ [][\A r \in Requests :
            (pc[r] = "idle" /\ DefectiveArrival(r)') =>
                /\ webhook_events' = webhook_events
                /\ applied' = applied
                /\ calls' = calls]_vars

\* The second delivery carried a correctly signed ts 400 seconds old and was
\* answered 400 while the ledger holds the processed record of the first.
SignatureRejectionWitness ==
    /\ pc[2] = "done"
    /\ DefectiveArrival(2)
    /\ CorrectlySigned(input[2])
    /\ (input[2].at \div 1000) - input[2].header[1].val.n = 400
    /\ resp[2] = "bad_signature"
    /\ \E d \in webhook_events : d._id = 1 /\ d.status = "processed"

\* The position of the first call named name in the call log, 0 if none.
Pos(log, name) ==
    LET hits == {i \in 1..Len(log) : log[i] = name}
    IN  IF hits = {} THEN 0 ELSE CHOOSE i \in hits : \A j \in hits : i <= j

\* How often name was called.
Count(log, name) == Cardinality({i \in 1..Len(log) : log[i] = name})

\* Request r committed an entity mutation.
AppliedBy(r) == \E k \in 1..Len(applied) : applied[k].by = r

\* Both caller-supplied handlers were invoked by request r.
BothHooksRan(r) ==
    Pos(calls[r], "onEvent") # 0 /\ Pos(calls[r], "events") # 0

\* Each caller-supplied handler is invoked at most once per request, and only
\* after the entity mutation of the event, if it has one, was committed.
HooksOnceAfterEffect(r) ==
    /\ Count(calls[r], "onEvent") <= 1
    /\ Count(calls[r], "events") <= 1
    /\ \A h \in {"onEvent", "events"} :
          Pos(calls[r], h) # 0 =>
              \A m \in EntityMutations :
                  Pos(calls[r], m) # 0 =>
                      AppliedBy(r) /\ Pos(calls[r], m) < Pos(calls[r], h)

\* C13, as claimed (hook order): after the default entity effect, the handler
\* registered for the exact event_type is invoked first and the catch-all
\* onEvent handler second, each at most once per request.
HookOrderTypedFirst ==
    \A r \in Requests :
        /\ HooksOnceAfterEffect(r)
        /\ BothHooksRan(r) => Pos(calls[r], "events") < Pos(calls[r], "onEvent")

\* C13, amended: after the default entity effect, the catch-all onEvent
\* handler is invoked first and the handler registered for the exact
\* event_type second, each at most once per request.
HookOrderGenericFirst ==
    \A r \in Requests :
        /\ HooksOnceAfterEffect(r)
        /\ BothHooksRan(r) => Pos(calls[r], "onEvent") < Pos(calls[r], "events")

\* A subscription.created request ran its entity mutation and both handlers
\* and was answered 200.
HookOrderWitness ==
    \E r \in Requests :
        /\ BothHooksRan(r)
        /\ Pos(calls[r], "handleSubscriptionCreated") # 0
        /\ resp[r] = "received"

\* Request r invoked a caller-supplied handler.
HookRan(r) == Pos(calls[r], "onEvent") # 0 \/ Pos(calls[r], "events") # 0

\* The event types processEvent has a case for.
HandledEventTypes ==
    {"customer.created", "customer.imported", "customer.updated",
     "subscription.created", "subscription.imported",
     "subscription.updated", "subscription.trialing",
     "subscription.past_due", "subscription.activated",
     "subscription.canceled", "subscription.paused", "subscription.resumed",
     "transaction.created", "transaction.ready", "transaction.billed",
     "transaction.updated", "transaction.paid", "transaction.past_due",
     "transaction.payment_failed", "transaction.canceled",
     "transaction.completed", "adjustment.created", "adjustment.updated"}

\* processEvent of request r threw: its entity mutation was called and did
\* not commit.
EffectThrew(r) ==
    /\ \E m \in EntityMutations : Pos(calls[r], m) # 0
    /\ ~AppliedBy(r)

\* C14 Caller-supplied handlers run only in a request whose
\* checkAndRecordEvent returned false and only after processEvent finished
\* without throwing: never in a request answered duplicate, rejected for its
\* signature or its JSON, failed at admission, or whose entity mutation threw.
HooksOnlyAfterAcquiredEffect ==
    \A r \in Requests :
        /\ HookRan(r) =>
              /\ calls[r][1] = "checkAndRecordEvent"
              /\ Count(calls[r], "checkAndRecordEvent") = 1
              /\ resp[r] \in {"none", "received", "finalize_failed",
                              "processing_error"}
              /\ input[r].body.event_type \in HandledEventTypes =>
                    AppliedBy(r)
              /\ HooksOnceAfterEffect(r)
        /\ resp[r] \in {"duplicate", "lock_failed", "no_secret",
                        "no_signature", "bad_signature", "invalid_json"}
              => ~HookRan(r)
        /\ EffectThrew(r) => ~HookRan(r)

\* With both handlers registered, the entity mutation of the first delivery
\* threw and no handler ran; the redelivery acquired the lock, committed the
\* mutation and ran both.
HooksOnlyAfterAcquiredEffectWitness ==
    /\ EffectThrew(1) /\ ~HookRan(1) /\ resp[1] = "processing_error"
    /\ HookRegistered(config, "onEvent", input[1].body.event_type)
    /\ HookRegistered(config, "events", input[1].body.event_type)
    /\ AppliedBy(2) /\ BothHooksRan(2)

\* The calls that end a request that acquired the lock.
FinalizeCalls == {"markEventProcessed", "markEventProcessed:processed_pending"}

\* The place of a call in the order of the handler's code.
Stage(name) ==
    CASE name = "checkAndRecordEvent" -> 1
      [] name \in EntityMutations -> 2
      [] name \in {"onEvent", "events"} -> 3
      [] name = "markEventProcessed" -> 4
      [] name = "markEventProcessed:processed_pending" -> 5
      [] name = "unreserveEvent" -> 6

\* C15 Within one request the steps are strictly ordered: checkAndRecordEvent
\* comes first and once; the entity mutation, then the handlers, then
\* markEventProcessed or unreserveEvent follow in that order;
\* markEventProcessed is called only when the entity mutation (if the type
\* has one) committed and every registered handler was invoked;
\* markEventProcessed and unreserveEvent are never both called by one
\* request, and neither by a request that did not acquire the lock.
StepOrder ==
    \A r \in Requests :
        /\ calls[r] # << >> => calls[r][1] = "checkAndRecordEvent"
        /\ \A i, j \in 1..Len(calls[r]) :
              i < j =>
                  /\ Stage(calls[r][i]) <= Stage(calls[r][j])
                  /\ Stage(calls[r][i]) = Stage(calls[r][j])
                        => {calls[r][i], calls[r][j]} = {"onEvent", "events"}
        /\ ~(Pos(calls[r], "unreserveEvent") # 0
             /\ \E f \in FinalizeCalls : Pos(calls[r], f) # 0)
        /\ (\E f \in FinalizeCalls : Pos(calls[r], f) # 0) =>
              /\ input[r].body.event_type \in HandledEventTypes => AppliedBy(r)
              /\ \A h \in {"onEvent", "events"} :
                    HookRegistered(config, h, input[r].body.event_type)
                        => Pos(calls[r], h) # 0
        /\ Pos(calls[r], "unreserveEvent") # 0 => (EffectThrew(r) \/ HookRan(r))
        /\ resp[r] \in {"duplicate", "lock_failed", "no_secret",
                        "no_signature", "bad_signature", "invalid_json"}
              => Len(calls[r]) <= 1

\* One request went through admission, entity mutation, both handlers and
\* markEventProcessed; another acquired, had a handler throw and called
\* unreserveEvent.
StepOrderWitness ==
    /\ calls[2] = <<"checkAndRecordEvent", "handleSubscriptionCreated",
                    "onEvent", "events", "markEventProcessed">>
    /\ Pos(calls[1], "unreserveEvent") # 0 /\ HookRan(1)

\* C16 Admission storage failure is fail-closed: if checkAndRecordEvent
\* throws, the handler answers 500, the ledger and the entity effects are as
\* they were, and the request calls neither processEvent's mutation nor a
\* handler nor markEventProcessed nor unreserveEvent.
AdmissionFailClosed ==
    /\ [](\A r \in Requests :
            resp[r] = "lock_failed" =>
                /\ pc[r] = "done"
                /\ StatusCode(resp[r]) = 500
                /\ calls[r] = <<"checkAndRecordEvent">>
                /\ ~AppliedBy(r)
                /\ \A d \in webhook_events : d._id # r)
    /\ [][\A r \in Requests :
            (AdmissionStep(r) /\ resp'[r] = "lock_failed") =>
                /\ webhook_events' = webhook_events
                /\ applied' = applied]_vars

\* The admission of a redelivery threw while the ledger held the lock an
\* earlier delivery left behind.
AdmissionFailClosedWitness ==
    /\ resp[2] = "lock_failed"
    /\ resp[1] = "finalize_failed"
    /\ \E d \in webhook_events : d._id = 1 /\ d.status = "processing"

\* The entity effects applied for event e, in order.
AppliedFor(log, e) == SelectSeq(log, LAMBDA a : a.event_id = e)

\* C17 Idempotent redelivery: while the ledger record of event E is
\* processed, every redelivery of E whose checkAndRecordEvent returns is
\* answered 200 duplicate having called nothing else, and no step changes
\* the record or the entity effects applied for E; a request answered
\* duplicate never runs an entity mutation or a handler.
IdempotentRedelivery ==
    /\ [](\A r \in Requests :
            resp[r] = "duplicate" =>
                /\ pc[r] = "done"
                /\ StatusCode(resp[r]) = 200
                /\ calls[r] = <<"checkAndRecordEvent">>
                /\ ~AppliedBy(r))
    /\ [][\A e \in Events :
            (\E d \in ByEventId(webhook_events, e) : d.status = "processed") =>
                /\ \A r \in Requests :
                      (AdmissionStep(r) /\ ev'[r] = e /\ resp'[r] # "lock_failed")
                          => resp'[r] = "duplicate"
                /\ ByEventId(webhook_events', e) = ByEventId(webhook_events, e)
                /\ AppliedFor(applied', e) = AppliedFor(applied, e)]_vars

\* subscription.created was delivered and answered 200, then redelivered and
\* answered duplicate; its effect was applied once, by the first delivery,
\* and its record is processed.
IdempotentRedeliveryWitness ==
    /\ resp[1] = "received" /\ resp[2] = "duplicate"
    /\ input[1].body.event_type = "subscription.created"
    /\ input[2].body = input[1].body
    /\ Len(applied) = 1 /\ applied[1].by = 1
    /\ \E d \in ByEventId(webhook_events, ev[2]) :
          d._id = 1 /\ d.status = "processed"

\* C20 Unrecognized event type: a request admitted for an event whose type
\* has no case in processEvent commits and calls no entity mutation, and
\* processEvent raises no error (the catch path is entered only when a
\* handler threw); every registered handler runs before finalization, and
\* when markEventProcessed returns the record is processed and the answer
\* is 200.
UnhandledTypeNoop ==
    \A r \in Requests :
        (calls[r] # << >> /\ input[r].body.event_type \notin HandledEventTypes) =>
            /\ ~AppliedBy(r)
            /\ \A m \in EntityMutations : Pos(calls[r], m) = 0
            /\ pc[r] = "release" => HookRan(r)
            /\ Pos(calls[r], "unreserveEvent") # 0 => HookRan(r)
            /\ pc[r] \in {"finalize", "fallback"} =>
                  \A h \in {"onEvent", "events"} :
                      HookRegistered(config, h, input[r].body.event_type)
                          => Pos(calls[r], h) # 0
            /\ (pc[r] = "done"
                /\ calls[r][Len(calls[r])] = "markEventProcessed") =>
                  /\ StatusCode(resp[r]) = 200
                  /\ resp[r] = "received"
                  /\ \E d \in ByEventId(webhook_events, ev[r]) :
                        d.status = "processed"

\* product.created was admitted, its registered handler ran, no entity effect
\* was applied, its record is processed and the answer was 200.
UnhandledTypeNoopWitness ==
    \E r \in Requests :
        /\ input[r].body.event_type = "product.created"
        /\ resp[r] = "received"
        /\ HookRan(r)
        /\ applied = << >>
        /\ \E d \in webhook_events : d._id = r /\ d.status = "processed"

\* The step in which the fallback write of request r fails too.
DoubleFailureStep(r) == pc[r] = "fallback" /\ resp'[r] = "finalize_failed"

\* No request but r has acquired a lock.
OnlyAcquirer(r) ==
    \A q \in Requests \ {r} :
        \/ pc[q] = "idle"
        \/ pc[q] = "done" /\ resp[q] \in {"duplicate", "lock_failed"}

FinalizationFallback ==
    [][\A r \in Requests :
          /\ (pc[r] = "fallback" /\ resp'[r] = "received") =>
                /\ StatusCode(resp'[r]) = 200
                /\ \E d \in ByEventId(webhook_events', ev[r]) :
                      d.status = "processed_pending"
          /\ (pc[r] # "fallback" /\ pc'[r] = "fallback") =>
                (pc[r] = "finalize" /\ webhook_events' = webhook_events)]_vars

\* C21 Ledger uniqueness: in every reachable state the webhook_events table
\* holds at most one record per paddleEventId, also across the delete and
\* re-insert of a stale-lock takeover.
LedgerUniqueness ==
    \A e \in Events : Cardinality(ByEventId(webhook_events, e)) <= 1

\* Request 2 has taken over the stale lock of request 1, which is still in
\* flight: the one record of the event is the lock request 2 inserted.
LedgerUniquenessWitness ==
    /\ pc[1] \in InFlight /\ pc[2] \in InFlight /\ ev[1] = ev[2]
    /\ ByEventId(webhook_events, ev[2]) =
           {Doc(2, ev[2], "processing", calledAt[2])}
    /\ calledAt[2] - calledAt[1] > LOCK_TTL_MS

\* C23 Lock ownership on release: a record deleted in the catch path of a
\* request is the processing record that request's own admission created; a
\* request whose lock was taken over never deletes the lock of the request
\* that took over.
ReleaseOwnLockOnly ==
    [][\A r \in Requests :
          ReleaseStep(r) =>
              \A d \in webhook_events \ webhook_events' :
                  d._id = r /\ d.status = "processing"]_vars

\* C22 Accepted takeover race: a request acquires over an existing record
\* only when that record is a processing lock older than LOCK_TTL_MS, which
\* it replaces by its own; the takeover leaves the overtaken request where
\* it is, free to go on with processEvent and the handlers, and every request
\* that commits the entity mutation adds one application of the effect.
TakeoverRace ==
    /\ [](\A r \in Requests :
            Pos(calls[r], "handleSubscriptionCreated") # 0 /\ ~EffectThrew(r)
                => Cardinality({k \in 1..Len(applied) : applied[k].by = r}) = 1)
    /\ [][\A b \in Requests :
            (AdmissionStep(b) /\ pc'[b] = "dispatch"
             /\ ByEventId(webhook_events, ev'[b]) # {}) =>
                /\ \A d \in ByEventId(webhook_events, ev'[b]) :
                      /\ d.status = "processing"
                      /\ now - d.processedAt > LOCK_TTL_MS
                /\ ByEventId(webhook_events', ev'[b]) =
                       {Doc(b, ev'[b], "processing", now)}
                /\ \A a \in Requests \ {b} : pc'[a] = pc[a]
                /\ applied' = applied]_vars

\* Request 1 acquired and was still in dispatch more than LOCK_TTL_MS later,
\* when request 2 took over the lock; request 2 committed the entity mutation
\* first, request 1 after it, both ran both handlers: the effect of the event
\* is applied twice.
TakeoverRaceWitness ==
    /\ ev[1] = ev[2] /\ calledAt[2] - calledAt[1] > LOCK_TTL_MS
    /\ Len(applied) = 2 /\ applied[1].by = 2 /\ applied[2].by = 1
    /\ applied[1].event_id = applied[2].event_id
    /\ BothHooksRan(1) /\ BothHooksRan(2)
    /\ pc[1] \in {"finalize", "fallback", "done"}
    /\ pc[2] \in {"finalize", "fallback", "done"}
    /\ resp[1] # "processing_error" /\ resp[2] # "processing_error"


\* The entity mutation of this step runs for the first time and commits.
Applies(m) == run.phase = "none" /\ run'.phase = "once" /\ run'.name = m

CustomersOf(d, id) == RowsById(d.customers, "paddleCustomerId", id)

\* C25 (Customer first-writer-wins, self-healing update): handleCustomerCreated
\* leaves the tables as they are when a customers row with the
\* paddleCustomerId exists, and inserts the row of its arguments when none
\* does; handleCustomerUpdated writes its email and customData into the
\* existing row and keeps the row's other fields, and inserts the row of its
\* arguments when none exists. Neither touches another table.
CustomerFirstWriterWins ==
    [][/\ Applies("handleCustomerCreated") =>
            LET args == run'.args
            IN  IF CustomersOf(db, args.paddleCustomerId) # {}
                THEN db' = db
                ELSE db' = [db EXCEPT !.customers = @ \cup {CustomerRow(args)}]
       /\ Applies("handleCustomerUpdated") =>
            LET args == run'.args
                before == CustomersOf(db, args.paddleCustomerId)
                after == CustomersOf(db', args.paddleCustomerId)
            IN  /\ Cardinality(after) = 1
                /\ \A row \in after :
                      /\ row.email = args.email
                      /\ before # {} => row.customData = args.customData
                      /\ before = {} => row = CustomerRow(args)
                /\ db'.customers \ after = db.customers \ before
                /\ db' = [db EXCEPT !.customers = db'.customers]]_vars

\* A late customer.created found the row an update had written, and an update
\* found no row.
CustomerFirstWriterWinsWitness ==
    /\ run.phase = "once"
    /\ run.name = "handleCustomerCreated"
    /\ \E row \in db.customers :
          /\ row.paddleCustomerId = run.args.paddleCustomerId
          /\ row.email # run.args.email
          /\ row.customData # OrEmpty(run.args.customData)

\* The entity mutation of the last step runs a second time.
AppliesAgain == run.phase = "once" /\ run'.phase = "twice"

\* C26 (Idempotent entity effects): a mutation applied a second time with the
\* same arguments leaves the entity tables as the first application left them.
EntityEffectsIdempotent == [][AppliesAgain => db' = db]_vars

\* The userId and orgId handleSubscriptionCreated extracted from its
\* arguments.
BackfillIds == OrEmpty(run.args.customData)

\* The transactions of the subscription of the running mutation.
OfSubscription ==
    {i \in 1..Len(db.transactions) :
        db.transactions[i].paddleSubscriptionId = run.args.paddleSubscriptionId}

\* C27 (Backfill completeness): when handleSubscriptionCreated has returned,
\* every transaction of its subscription has a userId if the custom data
\* carried one, and an orgId if the custom data carried one.
BackfillComplete ==
    (run.name = "handleSubscriptionCreated" /\ run.phase = "returned") =>
        \A i \in OfSubscription :
            /\ ~Falsy(BackfillIds.userId) => ~Falsy(db.transactions[i].userId)
            /\ ~Falsy(BackfillIds.orgId) => ~Falsy(db.transactions[i].orgId)

\* C28 (Backfill termination): handleSubscriptionCreated returns.
BackfillTerminates == <>(run.phase = "returned")

\* Row i of transactions is the same in all fields but userId and orgId.
SameButIds(i) ==
    LET old == db.transactions[i]
        new == db'.transactions[i]
    IN  [new EXCEPT !.userId = old.userId, !.orgId = old.orgId] = old

\* A step of handleSubscriptionCreated keeps the transactions table but for
\* the userId and orgId of the rows of its subscription, and keeps every
\* identifier whose value is not one of missing.
BackfillFrame(missing) ==
    (run'.name = "handleSubscriptionCreated" /\ run' # run) =>
        /\ Len(db'.transactions) = Len(db.transactions)
        /\ \A i \in 1..Len(db.transactions) :
              /\ SameButIds(i)
              /\ db.transactions[i].paddleSubscriptionId
                     # run'.args.paddleSubscriptionId
                 => db'.transactions[i] = db.transactions[i]
              /\ db.transactions[i].userId \notin missing
                 => db'.transactions[i].userId = db.transactions[i].userId
              /\ db.transactions[i].orgId \notin missing
                 => db'.transactions[i].orgId = db.transactions[i].orgId

\* C29 (Backfill only fills missing fields), as stated: a userId or orgId that
\* is set on a transactions row, whatever its value, is never overwritten, no
\* other field of a transaction is touched, and no transaction of another
\* subscription is touched.
BackfillKeepsSetIds == [][BackfillFrame({Undef})]_vars

\* C29, amended: a userId or orgId that is set to a non-empty string is never
\* overwritten, no other field of a transaction is touched, and no
\* transaction of another subscription is touched.
BackfillKeepsNonEmptyIds == [][BackfillFrame({Undef, ""})]_vars

\* The loop has filled the userId of one transaction of the subscription and
\* has passed over one that held another userId.
BackfillKeepsNonEmptyIdsWitness ==
    /\ run.name = "handleSubscriptionCreated"
    /\ run.phase = "returned"
    /\ BackfillIds.userId = "u1"
    /\ \E i, j \in OfSubscription :
          /\ db.transactions[i].userId = "u1"
          /\ db.transactions[i].customData.userId # "u1"
          /\ db.transactions[j].userId = "u0"

\* The step inserts a transaction through handleTransactionCreated or
\* handleTransactionCompleted.
InsertsTransaction ==
    /\ \/ Applies("handleTransactionCreated")
       \/ Applies("handleTransactionCompleted")
    /\ Len(db'.transactions) = Len(db.transactions) + 1

\* An identifier of an inserted transaction, resolved on its own: the custom
\* data's if it carries one, else the linked subscription's if a subscription
\* is given and has a row, else unset as in the custom data.
Resolved(args, d, key) ==
    IF ~Falsy(OrEmpty(args.customData)[key])
    THEN OrEmpty(args.customData)[key]
    ELSE IF ~Falsy(args.paddleSubscriptionId)
            /\ HasSubscription(d, args.paddleSubscriptionId)
    THEN SubscriptionOf(d, args.paddleSubscriptionId)[key]
    ELSE OrEmpty(args.customData)[key]

\* C30 (Transaction linkage resolution): the userId and the orgId of an
\* inserted transaction each come from the event's custom data when it
\* carries that identifier, and from the linked subscription row, when
\* paddleSubscriptionId is given and the row exists, when it does not.
LinkageResolution ==
    [][InsertsTransaction =>
          LET txn == db'.transactions[Len(db'.transactions)]
          IN  /\ txn.userId = Resolved(run'.args, db, "userId")
              /\ txn.orgId = Resolved(run'.args, db, "orgId")]_vars

\* Request r commits the entity mutation of its event in this step.
EffectStep(r) == pc[r] = "dispatch" /\ pc'[r] = "hook1"

\* Request r has answered, its entity mutation was committed, and nothing
\* threw afterwards: no release and no fallback write was attempted.
CompletedCleanly(r) ==
    /\ pc[r] = "done"
    /\ AppliedBy(r)
    /\ Pos(calls[r], "unreserveEvent") = 0
    /\ Pos(calls[r], "markEventProcessed:processed_pending") = 0

\* C24 (Patch-only subscription events never create rows): when the entity
\* mutation of a subscription.updated, .activated, .trialing, .past_due,
\* .canceled, .paused or .resumed event finds no subscriptions row for its
\* subscription id, it commits and leaves the subscriptions table, and every
\* other table, unchanged; and the request of such an event that completes
\* without a throw answers 200 and leaves the record of the event processed.
PatchOnlyNeverCreates ==
    /\ [](\A r \in Requests :
            (CompletedCleanly(r) /\ input[r].body.event_type \in PatchOnlyTypes)
            => /\ StatusCode(resp[r]) = 200
               /\ \E d \in ByEventId(webhook_events, ev[r]) :
                     StatusOf(d) = "processed")
    /\ [][\A r \in Requests :
            (/\ EffectStep(r)
             /\ input[r].body.event_type \in PatchOnlyTypes
             /\ ~HasSubscription(db, run'.args.paddleSubscriptionId))
            => /\ db'.subscriptions = db.subscriptions
               /\ db' = db]_vars

\* A subscription.paused event for a subscription that has no row was
\* answered with 200, its record is processed and the table is still empty.
PatchOnlyNeverCreatesWitness ==
    \E r \in Requests :
        /\ CompletedCleanly(r)
        /\ input[r].body.event_type = "subscription.paused"
        /\ run.name = "handleSubscriptionPaused"
        /\ db.subscriptions = {}
        /\ resp[r] = "received"

\* The _id values of the documents of a table.
Ids(tbl) == {d._id : d \in tbl}

\* Request r runs markEventProcessed or unreserveEvent in this step.
LedgerWriteStep(r) ==
    pc[r] \in {"finalize", "fallback", "release"} /\ pc'[r] # pc[r]

\* C31 (Ledger records are created only by checkAndRecordEvent): a document
\* that is new in the ledger was inserted by the checkAndRecordEvent call of
\* this step, with status processing; and a markEventProcessed or
\* unreserveEvent call for an event_id without a record leaves the ledger as
\* it was.
CreatedOnlyByAdmission ==
    [][/\ \A d \in webhook_events' :
             d._id \notin Ids(webhook_events) =>
                 /\ d.status = "processing"
                 /\ \E r \in Requests :
                       AdmissionStep(r) /\ d._id = r /\ d.paddleEventId = ev'[r]
       /\ \A r \in Requests :
             (LedgerWriteStep(r) /\ ByEventId(webhook_events, ev[r]) = {}) =>
                 webhook_events' = webhook_events]_vars

\* markEventProcessed was called for an event_id that had no record, and
\* returned: the request answered 200 and there is still no record.
CreatedOnlyByAdmissionWitness ==
    \E r \in Requests :
        /\ resp[r] = "received"
        /\ ByEventId(webhook_events, ev[r]) = {}

\* Caller r runs the named mutation in this step.
Calls(r, name) ==
    pc[r] = "idle" /\ pc'[r] = "done" /\ calls'[r] = <<name>>

\* The records without a status field.
Legacy(tbl) == {d \in tbl : d.status = "absent"}

\* C32 (Legacy records are permanent): for a record without status, at any
\* age, a checkAndRecordEvent call for its event_id returns true and leaves
\* the ledger as it was, and an unreserveEvent call for its event_id leaves
\* the ledger as it was.
LegacyPermanent ==
    [][\A d \in Legacy(webhook_events) : \A r \in Requests :
          /\ (Calls(r, "checkAndRecordEvent") /\ ev'[r] = d.paddleEventId) =>
                 resp'[r] = "true" /\ webhook_events' = webhook_events
          /\ (Calls(r, "unreserveEvent") /\ ev'[r] = d.paddleEventId) =>
                 webhook_events' = webhook_events]_vars

\* A record without status, older than twice LOCK_TTL_MS, is still there
\* after an unreserveEvent call and a checkAndRecordEvent call that returned
\* true.
LegacyPermanentWitness ==
    /\ Legacy(webhook_events) # {}
    /\ \A d \in Legacy(webhook_events) : now - d.processedAt > 2 * LOCK_TTL_MS
    /\ \E r, q \in Requests :
          /\ calls[r] = <<"unreserveEvent">>
          /\ calls[q] = <<"checkAndRecordEvent">>
          /\ resp[q] = "true"

\* processEvent and all handlers of request r have returned.
Completed(r) ==
    \/ pc[r] \in {"finalize", "fallback"}
    \/ resp[r] \in {"received", "finalize_failed"}

CompletedFor(e) == {r \in Requests : ev[r] = e /\ Completed(r)}

\* C33 (At-most-once effect without takeover), as stated: in an execution in
\* which no request stays between admission and finalization longer than
\* LOCK_TTL_MS, at most one request per event_id completes processEvent and
\* all handlers.
AtMostOnceWhenPrompt ==
    \A e \in Events : Cardinality(CompletedFor(e)) <= 1

\* C33, amended: in such an execution a second request completes them for an
\* event_id only after a double finalization failure: every request that
\* completed them before it answered 500 because both its processed and its
\* processed_pending write failed, and was admitted more than LOCK_TTL_MS
\* earlier.
AtMostOnceButDoubleFailure ==
    \A e \in Events : \A q, r \in CompletedFor(e) :
        q < r => /\ resp[q] = "finalize_failed"
                 /\ calledAt[r] - calledAt[q] > LOCK_TTL_MS

\* A request completed them and failed both finalization writes; a request
\* admitted after the lock's lifetime completed them again and was recorded.
AtMostOnceButDoubleFailureWitness ==
    \E q, r \in Requests :
        /\ q < r
        /\ ev[q] = ev[r]
        /\ resp[q] = "finalize_failed"
        /\ resp[r] = "received"
        /\ {q, r} \subseteq CompletedFor(ev[r])

\* The ledger holds a permanent record of event e.
Recorded(e) ==
    \E d \in ByEventId(webhook_events, e) :
        d.status \in {"processed", "processed_pending"}

\* C34 (Eventual recording): when the sender redelivers after every 500 or
\* missing response and stops after the first 200, and failures and crashes
\* stop, the event's ledger record eventually reaches status processed or
\* processed_pending.
EventuallyRecorded == \A e \in Events : <>Recorded(e)

\* C35 (Promotion ownership): a record with status processed or
\* processed_pending was promoted by the request whose admission created
\* it, so that request is past its dispatch; no request promotes the lock of
\* a takeover request that is still dispatching.
PromotionOwnership ==
    \A d \in webhook_events :
        d.status \in {"processed", "processed_pending"} =>
            /\ d._id \in Requests
            /\ pc[d._id] \notin {"dispatch", "release"}

\* C36 (Entity uniqueness): after any sequence of entity mutations each
\* of the customers, subscriptions, transactions and adjustments tables holds
\* at most one row per Paddle identifier.
EntityUniqueness ==
    /\ \A c \in db.customers :
           RowsById(db.customers, "paddleCustomerId", c.paddleCustomerId) = {c}
    /\ \A s \in db.subscriptions :
           RowsById(db.subscriptions, "paddleSubscriptionId",
                    s.paddleSubscriptionId) = {s}
    /\ \A i \in 1..Len(db.transactions) :
           TxnIndex(db.transactions, db.transactions[i].paddleTransactionId) = {i}
    /\ \A a \in db.adjustments :
           RowsById(db.adjustments, "paddleAdjustmentId", a.paddleAdjustmentId) = {a}

\* Mutations have filled every table, transactions with the rows of two
\* identifiers, and a later one has changed a row it found.
EntityUniquenessWitness ==
    /\ db.customers # {} /\ db.subscriptions # {} /\ db.adjustments # {}
    /\ Len(db.transactions) = 2
    /\ \E i \in 1..2 : db.transactions[i].status = "completed"
    /\ \E s \in db.subscriptions : s.status = "past_due"

\* Request r carried a header that verifies under the configured secret.
ValidlySigned(r) ==
    /\ input[r].header # NoHeader
    /\ verifyPaddleWebhookSignature(input[r].body, config.secret,
                                    input[r].header, input[r].at)

\* Request r called no mutation and no handler, created no ledger record
\* and applied no effect.
NoTrace(r) ==
    /\ calls[r] = << >>
    /\ \A d \in webhook_events : d._id # r
    /\ \A k \in 1..Len(applied) : applied[k].by # r

\* C37 (Boundary rejections leave no trace): a request with no webhook
\* secret configured is answered 500, a validly signed request whose body
\* is not JSON is answered 400, and in both cases checkAndRecordEvent is
\* never called, no ledger record is created and no effect or handler runs.
BoundaryNoTrace ==
    \A r \in Requests :
        pc[r] # "idle" =>
            /\ config.secret = "" =>
                   /\ resp[r] = "no_secret"
                   /\ StatusCode(resp[r]) = 500
                   /\ NoTrace(r)
            /\ config.secret # "" /\ ValidlySigned(r) /\ ~input[r].body.json =>
                   /\ resp[r] = "invalid_json"
                   /\ StatusCode(resp[r]) = 400
                   /\ NoTrace(r)

\* A request was admitted and recorded, and a later validly signed one whose
\* body is not JSON was answered.
BoundaryNoTraceWitness ==
    \E q, r \in Requests :
        /\ q < r
        /\ resp[q] = "received"
        /\ webhook_events # {}
        /\ pc[r] = "done"
        /\ config.secret # ""
        /\ ValidlySigned(r)
        /\ ~input[r].body.json

\* The value of field key of the header of the first request; the empty
\* text when the field is missing.
FieldOf(key) ==
    IF FindField(input[1].header, key) = 0 THEN Val("empty", 0)
    ELSE input[1].header[FindField(input[1].header, key)].val

\* C38 (verifyPaddleWebhookSignature is total and fails closed): every call
\* returns true or false and never throws; it returns false when the ts or
\* the h1 field is missing or empty, when ts is not a number, when the
\* digest's length differs from the computed one, and when a cryptographic
\* step throws.
VerifierTotalFailsClosed ==
    pc[1] = "done" =>
        /\ resp[1] \in {"verified", "bad_signature"}
        /\ \/ FieldOf("ts").k \in {"empty", "text"}
           \/ FieldOf("h1").k \in {"empty", "macprefix"}
           \/ run.args.cryptoThrows
           => resp[1] = "bad_signature"

\* A correctly signed header inside the replay window, and the cryptographic
\* step threw: the call returned false.
VerifierTotalFailsClosedWitness ==
    /\ pc[1] = "done"
    /\ run.args.cryptoThrows
    /\ ReachesCrypto(input[1].header, input[1].at)
    /\ verifyPaddleWebhookSignature(input[1].body, config.secret,
                                    input[1].header, input[1].at)
    /\ resp[1] = "bad_signature"

====
